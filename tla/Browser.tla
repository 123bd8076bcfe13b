------------------------------ MODULE Browser ------------------------------
(***************************************************************************)
(* What the app keeps in the browser and finds there again: the session    *)
(* (app/src/lib/session.ts), the JSON that carries bigints                 *)
(* (app/src/lib/bigintJson.ts) and the language (app/src/i18n.tsx), with a *)
(* reload, a new tab and another release of the app in between.            *)
(***************************************************************************)
EXTENDS Naturals

CONSTANTS
  LocaleCode,      \* the dictionaries, named after a language
  RtlLocale,       \* those that are written from right to left
  fallbackLocale,  \* "en"
  NoLocale,
  MaxMarkers,      \* bound: markers that a text begins with
  Release          \* SESSION_VERSION of the releases that ran in this tab

ASSUME LocaleAssumption == fallbackLocale \in LocaleCode /\ NoLocale \notin LocaleCode /\ MaxMarkers \in Nat

VARIABLES
  storage,     \* whether the browser lets the page use its storage
  release,     \* the release of the app that runs
  saved,       \* what sessionStorage has under the session's key
  localeKept,  \* what localStorage has for the language
  language,    \* the browser's language, NoLocale for one without a dictionary
  page,        \* locale and direction of the page, and whether it has just started
  loadResult,  \* the last loadSession of this page: result, what it read, what was saved last
  history      \* the value saved last in this tab, the locale picked last and kept

browserVars == <<storage, release, saved, localeKept, language, page, loadResult, history>>

----------------------------------------------------------------------------
(* A field of a saved value: a text is the markers it begins with and what *)
(* follows them; a bigint is written as its digits.                        *)

Value == [kind : {"text"}, markers : 0 .. MaxMarkers, rest : {"digits", "words", "nothing"}]
           \cup [kind : {"bigint"}, markers : {0}, rest : {"digits"}]
TextOf(markers, rest) == [kind |-> "text", markers |-> markers, rest |-> rest]
BigIntOf(rest) == [kind |-> "bigint", markers |-> 0, rest |-> rest]
Garbage == [kind |-> "garbage"]

\* session.ts: only a bigint is marked, and whatever looks like one is revived.
replacer(v) == IF v.kind = "bigint" THEN TextOf(1, v.rest) ELSE v
reviver(v) == IF v = TextOf(1, "digits") THEN BigIntOf("digits") ELSE v

\* bigintJson.ts: a text that begins with the marker gets another one.
stringify(v) ==
  CASE v.kind = "bigint" -> TextOf(1, v.rest)
    [] v.kind = "text"   -> IF v.markers > 0 THEN TextOf(v.markers + 1, v.rest) ELSE v
\* BigInt throws on words, and is zero for nothing at all.
parse(v) ==
  CASE v.markers = 0  -> v
    [] v.markers = 1  -> IF v.rest = "words" THEN Garbage ELSE BigIntOf(v.rest)
    [] OTHER          -> TextOf(v.markers - 1, v.rest)

----------------------------------------------------------------------------
(* The session.                                                            *)

NoSession == [version |-> 0, value |-> Garbage]
NoLoad == [outcome |-> "none", value |-> Garbage, of |-> NoSession, last |-> Garbage]

FaultyMismatch == saved # NoSession /\ saved.version > release
Mismatch == saved # NoSession /\ saved.version # release

\* A storage that is full still reads and removes.
saveSession(v) ==
  /\ IF storage = "works"
     THEN /\ saved' = [version |-> release, value |-> replacer(v)]
          /\ history' = [history EXCEPT !.value = v]
     ELSE UNCHANGED <<saved, history>>
  /\ UNCHANGED <<storage, release, localeKept, language, page, loadResult>>

loadSession ==
  /\ IF storage = "blocked"
     THEN /\ loadResult' = [NoLoad EXCEPT !.outcome = "unavailable"]
          /\ UNCHANGED saved
     ELSE /\ loadResult' =
               CASE saved = NoSession -> [NoLoad EXCEPT !.outcome = "corrupt"]
                 [] Mismatch          -> [NoLoad EXCEPT !.outcome = "version-mismatch"]
                 [] OTHER             -> [outcome |-> "ok", value |-> reviver(saved.value),
                                          of |-> saved, last |-> history.value]
          /\ saved' = IF Mismatch THEN NoSession ELSE saved
  /\ UNCHANGED <<storage, release, localeKept, language, page, history>>

clearSession ==
  /\ storage # "blocked" /\ saved' = NoSession
  /\ UNCHANGED <<storage, release, localeKept, language, page, loadResult, history>>

----------------------------------------------------------------------------
(* The language.                                                           *)

\* No dictionary has a region in its name, so the browser's language counts without its own.
chooseInitialLocale ==
  IF storage # "blocked" /\ localeKept \in LocaleCode THEN localeKept
  ELSE IF language \in LocaleCode THEN language ELSE fallbackLocale

isRtlLocale(code) == code \in RtlLocale
applyLocale(code) == [locale |-> code, dir |-> IF isRtlLocale(code) THEN "rtl" ELSE "ltr",
                      fresh |-> FALSE]
Started == [applyLocale(chooseInitialLocale) EXCEPT !.fresh = TRUE]

setLocale(next) ==
  /\ next \in LocaleCode
  /\ page' = applyLocale(next)
  /\ localeKept' = IF storage = "works" THEN next ELSE localeKept
  /\ history' = IF storage = "works" THEN [history EXCEPT !.picked = next] ELSE history
  /\ UNCHANGED <<storage, release, saved, language, loadResult>>

----------------------------------------------------------------------------
(* The browser.                                                            *)

BrowserInit ==
  /\ storage \in {"works", "full", "blocked"} /\ release \in Release
  /\ saved = NoSession /\ localeKept = NoLocale
  /\ language \in LocaleCode \cup {NoLocale}
  /\ page = Started
  /\ loadResult = NoLoad /\ history = [value |-> Garbage, picked |-> NoLocale]

\* ErrorBoundary's "Start over", or the user; another release may be served.
Reload ==
  /\ release' \in Release
  /\ page' = Started
  /\ loadResult' = NoLoad
  /\ UNCHANGED <<storage, saved, localeKept, language, history>>

\* A new tab has a session storage of its own.
NewTab ==
  /\ saved' = NoSession /\ loadResult' = NoLoad
  /\ page' = Started
  /\ history' = [history EXCEPT !.value = Garbage]
  /\ UNCHANGED <<storage, release, localeKept, language>>

\* The storage fills up, or room is made.
StorageChanges ==
  /\ \/ storage = "works" /\ storage' = "full"
     \/ storage = "full" /\ storage' = "works"
  /\ UNCHANGED <<release, saved, localeKept, language, page, loadResult, history>>

BrowserNext ==
  \/ \E v \in Value : saveSession(v)
  \/ loadSession \/ clearSession
  \/ \E next \in LocaleCode : setLocale(next)
  \/ Reload \/ NewTab \/ StorageChanges

BrowserSpec == BrowserInit /\ [][BrowserNext]_browserVars

----------------------------------------------------------------------------

\* bigintJson's contract (bigintJson.test.ts): what is written is read back, a text that
\* looks like a marked bigint too.
JsonIsExact == \A v \in Value : parse(stringify(v)) = v

\* What a page loads is what was saved last in its tab, whatever reloads, failed saves and
\* releases came between, except that session.ts revives a text that looks like a bigint;
\* no release reads the session of another; and a page that starts has the language that
\* was picked last and could be kept.
StoredIsReadBack ==
  /\ JsonIsExact
  /\ loadResult.outcome = "ok" =>
       /\ loadResult.of.version = release
       /\ loadResult.value = loadResult.last \/ loadResult.last = TextOf(1, "digits")
  /\ page.fresh /\ history.picked # NoLocale => page.locale = history.picked
=============================================================================

--------------------------- MODULE ConstraintGuard ---------------------------
(***************************************************************************)
(* The one circuit source that every script writes before it compiles      *)
(* (circuits/scripts/gen-circuit.cjs, with config.json's levels), and the  *)
(* guard on the sizes of the circuit at every guarded depth                *)
(* (check-constraints.cjs against constraints.json).  The number of        *)
(* constraints is taken to tell templates and depths apart: it is the pair *)
(* of them.  The template and the compiler it is measured with are one.    *)
(***************************************************************************)
EXTENDS Naturals, Sequences, FiniteSets, FiniteSetsExt

CONSTANTS
  Template,        \* versions of the template and the compiler
  GuardedDepths,   \* GUARDED_DEPTHS
  OtherDepths,     \* further depths somebody may compile or record
  configLevels,    \* config.json
  MaxEdits         \* bound: edits of the template and of constraints.json

Depth == GuardedDepths \cup OtherDepths
NoLevels == 0

ASSUME GuardAssumption ==
  /\ Depth \subseteq Nat \ {NoLevels} /\ IsFiniteSet(GuardedDepths)
  /\ configLevels \in Depth /\ MaxEdits \in Nat

VARIABLES
  template,
  membershipCircom,  \* the generated source: its template and levels
  constraints,       \* constraints.json: depth to count
  edits,
  checking,          \* the guard: what it read of constraints.json, the depths to come,
                     \* whether the source of the next is generated, its failures
  verdict,           \* its exit, when it is over
  edited,            \* (history) whether template or constraints.json changed since it began
  disturbed          \* (history) whether another script generated or circom failed meanwhile

guardVars == <<template, membershipCircom, constraints, edits, checking, verdict, edited, disturbed>>

Measured(circuit) == circuit
NotChecking == [expected |-> <<>>, left |-> {}, generated |-> FALSE, failures |-> FALSE]

GuardInit ==
  /\ template \in Template
  /\ membershipCircom = [template |-> template, levels |-> configLevels]
  /\ constraints = [d \in GuardedDepths |-> [template |-> template, levels |-> d]]
  /\ edits = 0
  /\ checking = NotChecking /\ verdict = "none" /\ edited = FALSE /\ disturbed = FALSE

\* generate: LEVELS of the environment goes before the argument, that before config.json.
generate(env, override) ==
  [template |-> template,
   levels |-> CASE env # NoLevels -> env
                [] env = NoLevels /\ override # NoLevels -> override
                [] OTHER -> configLevels]

----------------------------------------------------------------------------
(* Somebody edits, and other scripts generate: compile.sh, with or without *)
(* LEVELS, and the circuit's tests, with an argument.                      *)

Edited == edits < MaxEdits /\ edits' = edits + 1 /\ edited' = TRUE

EditTemplate ==
  /\ Edited
  /\ \E t \in Template \ {template} : template' = t
  /\ UNCHANGED <<membershipCircom, constraints, checking, verdict, disturbed>>

Unrecorded(d) == [x \in DOMAIN constraints \ {d} |-> constraints[x]]
EditConstraints(d) ==
  /\ Edited
  /\ \/ d \in DOMAIN constraints /\ constraints' = Unrecorded(d)
     \/ constraints' = [x \in DOMAIN constraints \cup {d} |->
          IF x = d THEN [template |-> template, levels |-> d] ELSE constraints[x]]
  /\ UNCHANGED <<template, membershipCircom, checking, verdict, disturbed>>

OtherGenerate(env, override) ==
  /\ membershipCircom' = generate(env, override)
  /\ disturbed' = TRUE
  /\ UNCHANGED <<template, constraints, edits, checking, verdict, edited>>

----------------------------------------------------------------------------
(* check-constraints.cjs.                                                  *)

\* The depths to be checked are the guard's own list, not the file's keys.
FaultyGuarded(file) == DOMAIN file
Guarded(file) == GuardedDepths

\* A key that is not guarded is a failure at once.
StartCheck ==
  /\ checking = NotChecking
  /\ checking' = [expected |-> constraints, left |-> Guarded(constraints), generated |-> FALSE,
                  failures |-> ~ DOMAIN constraints \subseteq GuardedDepths]
  /\ verdict' = "none" /\ edited' = FALSE /\ disturbed' = FALSE
  /\ UNCHANGED <<template, membershipCircom, constraints, edits>>

NextDepth == Min(checking.left)

\* compileAtDepth: the source is generated, then compiled, by two programs.
GenerateAtDepth ==
  /\ checking.left # {} /\ ~ checking.generated
  /\ membershipCircom' = generate(NextDepth, NoLevels)
  /\ checking' = [checking EXCEPT !.generated = TRUE]
  /\ UNCHANGED <<template, constraints, edits, verdict, edited, disturbed>>

Matches(d) == /\ d \in DOMAIN checking.expected
              /\ checking.expected[d] = Measured(membershipCircom)

\* A depth without a count is compiled all the same.
CountAtDepth ==
  /\ checking.generated
  /\ LET last == checking.left = {NextDepth}
         failures == checking.failures \/ ~ Matches(NextDepth)
     IN  IF last
         THEN checking' = NotChecking /\ verdict' = IF failures THEN "failed" ELSE "ok"
         ELSE /\ checking' = [checking EXCEPT !.left = @ \ {NextDepth}, !.generated = FALSE,
                                              !.failures = failures]
              /\ UNCHANGED verdict
  /\ UNCHANGED <<template, membershipCircom, constraints, edits, edited, disturbed>>

\* gen-circuit or circom fails.
CompileFails ==
  /\ checking # NotChecking
  /\ checking' = NotChecking /\ verdict' = "failed" /\ disturbed' = TRUE
  /\ UNCHANGED <<template, membershipCircom, constraints, edits, edited>>

GuardNext ==
  \/ EditTemplate
  \/ \E d \in Depth : EditConstraints(d)
  \/ \E env, override \in Depth \cup {NoLevels} : OtherGenerate(env, override)
  \/ StartCheck \/ GenerateAtDepth \/ CountAtDepth \/ CompileFails

GuardSpec == GuardInit /\ [][GuardNext]_guardVars

----------------------------------------------------------------------------
(* Properties.                                                             *)

\* The verdict is about the circuit and every guarded depth.  If nobody edits template or
\* constraints.json during the check, it passes only when constraints.json records just the
\* guarded depths, each with the size the template has there: not after an entry was
\* deleted, and not with the source of another script that was generated in between.  And
\* it fails without a cause only where such a script, or circom, got in its way.
GuardIsComplete ==
  ~ edited =>
    LET right == constraints = [d \in GuardedDepths |-> [template |-> template, levels |-> d]]
    IN  /\ verdict = "ok" => right
        /\ verdict = "failed" /\ ~ disturbed => ~ right
=============================================================================

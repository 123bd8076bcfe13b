------------------------------- MODULE Doctor -------------------------------
(***************************************************************************)
(* The toolchain doctor (scripts/doctor.ts) and the configuration that the *)
(* scripts load once it is green (scripts/config.ts).  A machine is the    *)
(* set of things wrong with it, a .env file the sequence of its lines.     *)
(***************************************************************************)
EXTENDS Naturals, Sequences, FiniteSets

CONSTANT MaxFaults  \* bound: things wrong with a machine at once

VARIABLES
  broken,      \* what is wrong with the machine
  envFile,     \* the lines of .env, or NoFile
  processEnv,  \* the environment of the process
  doctor       \* the doctor's run

doctorVars == <<broken, envFile, processEnv, doctor>>

Fault == {"rustcMissing", "rustcOther", "targetMissing", "curlMissing", "stellarMissing",
          "stellarOld", "nodeMissing", "nodeOld", "nodeUnpinned", "circomMissing", "circomOld",
          "primeUnknown", "packageMissing", "distMissing", "artifactsBad", "covMissing",
          "justMissing"}

\* Those that leave no blocking check failing.
Optional == {"nodeUnpinned", "covMissing", "justMissing"}

EnvKey == {"STELLAR_RPC_URL", "STELLAR_NETWORK_PASSPHRASE", "TEST_TOKEN_CONTRACT_ID",
           "SHARIBO_CONTRACT_ID", "ADMIN_SECRET_KEY"}
requiredKeys == {"TEST_TOKEN_CONTRACT_ID", "SHARIBO_CONTRACT_ID", "ADMIN_SECRET_KEY"}

\* A padded value is a good one with spaces inside its quotes.
EnvValue == {"good", "padded", "malformed", "blank"}
Line == [key : EnvKey, value : EnvValue]
NoFile == <<>>  \* an empty file reads like none

KeyOrder == <<"STELLAR_RPC_URL", "STELLAR_NETWORK_PASSPHRASE", "TEST_TOKEN_CONTRACT_ID",
              "SHARIBO_CONTRACT_ID", "ADMIN_SECRET_KEY">>
Shipped == [i \in 1 .. 5 |-> [key |-> KeyOrder[i], value |-> "good"]]

----------------------------------------------------------------------------
(* What the file gives a key: the doctor keeps the last line and only the  *)
(* keys of the file, the loader the first line, and what the process       *)
(* already has in either case wins.                                        *)

LinesOf(key) == { i \in DOMAIN envFile : envFile[i].key = key }
Lowest(S) == CHOOSE i \in S : \A j \in S : i <= j
Highest(S) == CHOOSE i \in S : \A j \in S : j <= i

envValues(key) ==
  IF LinesOf(key) = {} THEN "unset"
  ELSE IF processEnv[key] # "unset" THEN processEnv[key]
  ELSE envFile[Highest(LinesOf(key))].value

loadEnv(key) ==
  IF processEnv[key] # "unset" THEN processEnv[key]
  ELSE IF LinesOf(key) # {} THEN envFile[Lowest(LinesOf(key))].value
  ELSE "unset"

isNonEmpty(value) == value \notin {"unset", "blank"}

\* new URL() ignores the spaces around a URL, the length check of a key does not.
rules(key, value) ==
  CASE key = "STELLAR_NETWORK_PASSPHRASE" -> isNonEmpty(value)
    [] key = "STELLAR_RPC_URL"            -> isNonEmpty(value) /\ value # "malformed"
    [] OTHER                              -> value = "good"

loadConfig == \A key \in EnvKey : rules(key, loadEnv(key))

----------------------------------------------------------------------------
(* The checks: whether one blocks, passes, and the fault --fix repairs.    *)

Clear(faults) == broken \cap faults = {}
Check(blocking, ok, autofix) == [blocking |-> blocking, ok |-> ok, autofix |-> autofix]

checkRust ==
  Check(TRUE, Clear({"rustcMissing", "rustcOther", "targetMissing"}),
        IF "targetMissing" \in broken /\ "rustcMissing" \notin broken
        THEN "targetMissing" ELSE "none")
checkCurl == Check(TRUE, Clear({"curlMissing"}), "none")
checkStellar == Check(TRUE, Clear({"stellarMissing", "stellarOld"}), "none")
checkNode == Check(TRUE, Clear({"nodeMissing", "nodeOld"}), "none")
checkNodeVersion == Check(FALSE, Clear({"nodeMissing", "nodeUnpinned"}), "none")
checkCircom == Check(TRUE, Clear({"circomMissing", "circomOld", "primeUnknown"}), "none")
checkCircomDeps == Check(TRUE, Clear({"packageMissing"}), "none")
checkClientDist == Check(TRUE, Clear({"distMissing"}), "distMissing")
checkCircuitArtifacts == Check(TRUE, Clear({"artifactsBad"}), "none")
checkEnv ==
  Check(TRUE,
        /\ envFile # NoFile
        /\ \A key \in requiredKeys : envValues(key) \in {"good", "padded"}
        /\ envValues("STELLAR_RPC_URL") # "malformed",
        "none")
checkCargoCov == Check(FALSE, Clear({"covMissing"}), "none")
checkJust == Check(FALSE, Clear({"justMissing"}), "none")

checkAll == <<checkRust, checkCurl, checkStellar, checkNode, checkNodeVersion, checkCircom,
              checkCircomDeps, checkClientDist, checkCircuitArtifacts, checkEnv,
              checkCargoCov, checkJust>>

Blocks(check) == check.blocking /\ ~ check.ok
Fixable(checks) == SelectSeq(checks, LAMBDA c : Blocks(c) /\ c.autofix # "none")
Failing(checks) == { i \in DOMAIN checks : Blocks(checks[i]) }

----------------------------------------------------------------------------

Repaired(key, value) == [i \in 1 .. 5 |-> IF Shipped[i].key = key THEN [Shipped[i] EXCEPT !.value = value]
                                          ELSE Shipped[i]]
Without(i) == SubSeq(Shipped, 1, i - 1) \o SubSeq(Shipped, i + 1, 5)

\* The shipped file with at most one edit.
EnvFiles == {Shipped, NoFile} \cup { Without(i) : i \in 1 .. 5 }
              \cup { Repaired(line.key, line.value) : line \in Line }
              \cup { Append(Shipped, line) : line \in Line }
NoEnv == [key \in EnvKey |-> "unset"]

\* Bound: a machine with a broken tool has the shipped file or none.
DoctorInit ==
  /\ broken \in { faults \in SUBSET Fault : Cardinality(faults) <= MaxFaults }
  /\ envFile \in EnvFiles
  /\ processEnv \in {NoEnv} \cup { [NoEnv EXCEPT ![line.key] = line.value] : line \in Line }
  /\ broken # {} => envFile \in {Shipped, NoFile} /\ processEnv = NoEnv
  /\ doctor \in [phase : {"start"}, fix : BOOLEAN, checks : {<<>>}, todo : {<<>>}, exit : {2}]

\* main: the checks run side by side and are looked at when all have answered.
Diagnose ==
  /\ doctor.phase = "start"
  /\ LET fixable == IF doctor.fix THEN Fixable(checkAll) ELSE <<>> IN
     doctor' = [doctor EXCEPT !.checks = checkAll, !.todo = fixable,
                              !.phase = IF fixable = <<>> THEN "print" ELSE "fix"]
  /\ UNCHANGED <<broken, envFile, processEnv>>

\* A fix may fail: it is logged, and the next one is run.
runFix ==
  /\ doctor.phase = "fix" /\ doctor.todo # <<>>
  /\ \/ broken' = broken \ {Head(doctor.todo).autofix}
     \/ UNCHANGED broken
  /\ doctor' = [doctor EXCEPT !.todo = Tail(@)]
  /\ UNCHANGED <<envFile, processEnv>>

FaultyRecheck ==
  /\ doctor.phase = "fix" /\ doctor.todo = <<>>
  /\ doctor' = [doctor EXCEPT !.phase = "print",
                  !.checks = SelectSeq(@, LAMBDA c : ~ (Blocks(c) /\ c.autofix # "none"))]
  /\ UNCHANGED <<broken, envFile, processEnv>>
Recheck ==
  /\ doctor.phase = "fix" /\ doctor.todo = <<>>
  /\ doctor' = [doctor EXCEPT !.checks = checkAll, !.phase = "print"]
  /\ UNCHANGED <<broken, envFile, processEnv>>

Exit ==
  /\ doctor.phase = "print"
  /\ doctor' = [doctor EXCEPT !.phase = "exited",
                              !.exit = IF Failing(doctor.checks) = {} THEN 0 ELSE 1]
  /\ UNCHANGED <<broken, envFile, processEnv>>

DoctorNext == Diagnose \/ runFix \/ Recheck \/ Exit

DoctorSpec == DoctorInit /\ [][DoctorNext]_doctorVars

----------------------------------------------------------------------------

\* Where the two readers of .env part: a key on two lines, spaces inside the quotes of a
\* key, and the two values the loader wants and the doctor does not: blank, or set in the
\* process alone.
ReadersPart ==
  \/ \E key \in EnvKey : Cardinality(LinesOf(key)) > 1
  \/ \E key \in requiredKeys : loadEnv(key) = "padded"
  \/ \E key \in EnvKey \ requiredKeys : LinesOf(key) = {} \/ ~ isNonEmpty(loadEnv(key))

\* The doctor's verdict is about the machine as it leaves it, whatever --fix repaired or
\* failed to repair; and once it is green the scripts load their configuration, except
\* where the two readers of .env are known to part.
GreenIsReady ==
  doctor.phase = "exited" =>
    /\ doctor.exit = 0 <=> checkEnv.ok /\ broken \subseteq Optional
    /\ doctor.exit = 0 => loadConfig \/ ReadersPart
=============================================================================

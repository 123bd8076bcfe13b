------------------------------ MODULE Artifacts ------------------------------
(***************************************************************************)
(* From the circuit to what the app serves: circuits/scripts/compile.sh,   *)
(* setup.sh and verify-artifacts.mjs, app/scripts/sync-circuit.mjs and     *)
(* scripts/maintenance/clean.mjs.                                          *)
(* One person builds, one script after the other, and may stop any of      *)
(* them; sync --watch runs next to that.  A file is what it holds: an r1cs *)
(* and a wasm the version of the circuit, a proving key that version, its  *)
(* number and (history) how it was made, a verification key the number of  *)
(* the proving key it was exported from.                                   *)
(***************************************************************************)
EXTENDS Naturals, FiniteSetsExt, Sequences

CONSTANTS
  Circuit,      \* versions of the circuit
  Committed,    \* the one the repository holds
  MaxCompiles,  \* bound: compilations begun
  MaxKeys       \* bound: keys made after the committed one, which is number 0

ASSUME ArtifactsAssumption == Committed \in Circuit /\ MaxCompiles \in Nat /\ MaxKeys \in Nat

VARIABLES
  built,      \* the files: r1cs, wasm, zkey, vk
  hashes,     \* the .sha256 files next to them
  setup,      \* the script under way: its step; for setup.sh the key it found and
              \* ALLOW_KEY_ROTATION
  compiles,   \* (history) how many compilations there were
  lastKey,    \* (history) the number of the last key made
  sync,       \* sync-circuit: the files still to be copied
  served,     \* app/public/circuits
  raced       \* (history) whether a file changed between a check and the copies it allowed

artifactVars == <<built, hashes, setup, compiles, lastKey, sync, served, raced>>

Name == {"wasm", "zkey", "vk"}
\* There is no .sha256 file, or it is empty or says "sha256-unavailable".
NoHash == {}
NotRunning == [step |-> "none", previous |-> 0, allow |-> FALSE]

\* allowed: with ALLOW_KEY_ROTATION; matched: the wasm was of the same circuit.
CommittedKey == [circuit |-> Committed, key |-> 0, allowed |-> FALSE, matched |-> TRUE]

\* The repository comes with a verification key and no hashes; who made the key has
\* its proving key.
ArtifactsInit ==
  /\ built \in {[r1cs |-> {}, wasm |-> {}, zkey |-> {}, vk |-> {0}],
                [r1cs |-> {Committed}, wasm |-> {Committed}, zkey |-> {CommittedKey}, vk |-> {0}]}
  /\ hashes = [n \in Name |-> NoHash]
  /\ setup = NotRunning
  /\ compiles = 0 /\ lastKey = 0
  /\ sync = {}
  /\ served = [n \in Name |-> {}]
  /\ raced = FALSE

\* A file changes; a copy that is under way was checked before.
Change(files) == built' = files /\ raced' = (raced \/ sync # {})

----------------------------------------------------------------------------
(* The person who builds.                                                  *)

Goto(step) == setup' = [setup EXCEPT !.step = step]

\* compile.sh: circom writes the r1cs, then the wasm.  Stopped between the two it leaves
\* the wasm that was there, if there was one.
Compile(c) ==
  /\ setup = NotRunning /\ compiles < MaxCompiles
  /\ Change([built EXCEPT !.r1cs = {c}])
  /\ compiles' = compiles + 1
  /\ Goto("compile")
  /\ UNCHANGED <<hashes, lastKey, sync, served>>
WriteWasm ==
  /\ setup.step = "compile"
  /\ Change([built EXCEPT !.wasm = built.r1cs])
  /\ setup' = NotRunning
  /\ UNCHANGED <<hashes, compiles, lastKey, sync, served>>
StopCompile ==
  /\ setup.step = "compile"
  /\ setup' = NotRunning
  /\ UNCHANGED <<built, hashes, compiles, lastKey, sync, served, raced>>

\* rm build/membership_final.zkey, and git checkout verification_key.json.
RemoveKey ==
  /\ setup = NotRunning /\ built.zkey # {}
  /\ Change([built EXCEPT !.zkey = {}])
  /\ UNCHANGED <<hashes, setup, compiles, lastKey, sync, served>>
Checkout ==
  /\ setup = NotRunning /\ built.vk # {0}
  /\ Change([built EXCEPT !.vk = {0}])
  /\ UNCHANGED <<hashes, setup, compiles, lastKey, sync, served>>

\* clean.mjs: the directories of builds, then by extension what lies elsewhere;
\* verification_key.json is spared, and so are the hashes.
removeByExtensions == [built EXCEPT !.r1cs = {}, !.wasm = {}, !.zkey = {}]

\* A sync that is copying finds its directory gone.
Clean ==
  /\ setup = NotRunning
  /\ Change(removeByExtensions)
  /\ served' = [n \in Name |-> {}] /\ sync' = {}
  /\ UNCHANGED <<hashes, setup, compiles, lastKey>>

----------------------------------------------------------------------------
(* setup.sh.                                                               *)

\* zkey verify accepts a key of this r1cs; a key that exports the verification key
\* that is there is kept.  Nothing looks at the wasm.
ValidKey   == \A z \in built.zkey : {z.circuit} = built.r1cs
CurrentKey == \E z \in built.zkey : built.vk = {z.key}

StartSetup ==
  /\ setup = NotRunning /\ built.r1cs # {}
  /\ ValidKey /\ ~ CurrentKey
  /\ \E allow \in BOOLEAN :
       setup' = [step |-> "contribute", previous |-> CHOOSE k \in built.vk : TRUE, allow |-> allow]
  /\ UNCHANGED <<built, hashes, compiles, lastKey, sync, served, raced>>

\* groth16 setup and zkey contribute, with fresh entropy.
Contribute ==
  /\ setup.step = "contribute" /\ lastKey < MaxKeys
  /\ \E c \in built.r1cs :
       Change([built EXCEPT !.zkey = {[circuit |-> c, key |-> lastKey + 1, allowed |-> setup.allow,
                                       matched |-> built.wasm = built.r1cs]}])
  /\ lastKey' = lastKey + 1
  /\ Goto("export")
  /\ UNCHANGED <<hashes, compiles, sync, served>>

\* The new key is verified and exported.
Export ==
  /\ setup.step = "export" /\ ValidKey
  /\ \E z \in built.zkey : Change([built EXCEPT !.vk = {z.key}])
  /\ Goto("guard")
  /\ UNCHANGED <<hashes, compiles, lastKey, sync, served>>

\* Another key than the one found is a rotation, to be acknowledged.
Acknowledged == built.vk = {setup.previous} \/ setup.allow

Guard ==
  /\ setup.step = "guard"
  /\ IF Acknowledged THEN Goto("vk") ELSE setup' = NotRunning
  /\ UNCHANGED <<built, hashes, compiles, lastKey, sync, served, raced>>

After == [vk |-> "wasm", wasm |-> "zkey", zkey |-> "none"]

\* hash_file, which needs the file and one of two programs.
RecordHash(n) ==
  /\ setup.step = n
  /\ \E hash \in {built[n], NoHash} : hashes' = [hashes EXCEPT ![n] = hash]
  /\ IF n = "zkey" THEN setup' = NotRunning ELSE Goto(After[n])
  /\ UNCHANGED <<built, compiles, lastKey, sync, served, raced>>

\* The .sha256 file is emptied before the program runs, which fails or is stopped.
HashFails(n) ==
  /\ setup.step = n
  /\ hashes' = [hashes EXCEPT ![n] = NoHash]
  /\ setup' = NotRunning
  /\ UNCHANGED <<built, compiles, lastKey, sync, served, raced>>

\* It is stopped, or a program it calls fails.
StopSetup ==
  /\ setup.step \notin {"none", "compile"} /\ setup' = NotRunning
  /\ UNCHANGED <<built, hashes, compiles, lastKey, sync, served, raced>>

----------------------------------------------------------------------------
(* verify-artifacts.mjs and sync-circuit.mjs.                              *)

\* The exit code is 0 if all is well.  The names in artifact-hashes.json are not those of
\* the artifacts, so that nothing is found there.
Verified(n) == built[n] # {} /\ hashes[n] = built[n]

FaultyVerifyArtifacts == Verified("vk")
verifyArtifacts == \A n \in Name : Verified(n)

StartSync ==
  /\ sync = {} /\ verifyArtifacts
  /\ sync' = Name /\ raced' = FALSE
  /\ UNCHANGED <<built, hashes, setup, compiles, lastKey, served>>

CopyOrder == <<"wasm", "zkey", "vk">>
NextCopy == Head(SelectSeq(CopyOrder, LAMBDA n : n \in sync))

\* A file that has gone is passed over.
CopyFile ==
  /\ sync # {}
  /\ served' = [served EXCEPT ![NextCopy] = IF built[NextCopy] = {} THEN @ ELSE built[NextCopy]]
  /\ sync' = sync \ {NextCopy}
  /\ UNCHANGED <<built, hashes, setup, compiles, lastKey, raced>>

ArtifactsNext ==
  \/ \E c \in Circuit : Compile(c)
  \/ WriteWasm \/ StopCompile
  \/ RemoveKey \/ Checkout \/ Clean \/ StartSetup \/ Contribute \/ Export \/ Guard
  \/ \E n \in Name : RecordHash(n) \/ HashFails(n)
  \/ StopSetup \/ StartSync \/ CopyFile

ArtifactsSpec == ArtifactsInit /\ [][ArtifactsNext]_artifactVars

----------------------------------------------------------------------------
(* Properties.                                                             *)

\* However compile and setup were stopped and repeated, keys removed and checked out and the
\* circuit compiled anew: once a sync is over that no build raced, the verification key the
\* app serves is the one that was exported from the proving key it serves, and whoever made
\* that key has acknowledged the rotation.  The wasm is of the key's circuit if it was of
\* the r1cs when the key was made; after a compile that stopped between the two nothing
\* compares them, and the three hashes are good.
ServedBelongTogether ==
  sync = {} /\ ~ raced =>
    \A z \in served.zkey :
      /\ served.vk = {z.key} /\ z.allowed
      /\ z.matched => served.wasm = {z.circuit}
=============================================================================

---------------------------- MODULE OnlineStatus ----------------------------
(***************************************************************************)
(* The offline banner: app/src/hooks/useOnlineStatus.ts over               *)
(* checkContractDeployed (app/src/lib/testnetHealth.ts).  Refreshes start  *)
(* on a timer and on the browser's event, and overlap.                     *)
(***************************************************************************)
EXTENDS Naturals

CONSTANT MaxProbes   \* bound: refreshes that overlap

VARIABLES
  link,       \* navigator.onLine
  news,       \* the browser's event that is not delivered yet (bound: one at a time)
  rpc,        \* whether the RPC answers
  probe,      \* refreshes that wait for an answer, and what they know
  online,     \* what the hook returns
  active      \* FALSE after the clean-up of the effect

onlineVars == <<link, news, rpc, probe, online, active>>

Probe == 1 .. MaxProbes

\* The first refresh runs with the effect.
Refreshed(p) ==
  IF link THEN probe' = [probe EXCEPT ![p] = "health"] /\ UNCHANGED online
          ELSE online' = FALSE /\ UNCHANGED probe

OnlineInit ==
  /\ link \in BOOLEAN /\ rpc \in BOOLEAN /\ news = "none" /\ active = TRUE
  /\ online = link
  /\ probe = [p \in Probe |-> IF p = 1 /\ link THEN "health" ELSE "none"]

LinkChanges ==
  /\ news = "none"
  /\ link' = ~ link
  /\ news' = IF link THEN "offline" ELSE "online"
  /\ UNCHANGED <<rpc, probe, online, active>>

RpcChanges ==
  /\ rpc' = ~ rpc
  /\ UNCHANGED <<link, news, probe, online, active>>

\* goOffline, goOnline; nobody listens after the clean-up.
GoOffline ==
  /\ news = "offline" /\ news' = "none"
  /\ online' = IF active THEN FALSE ELSE online
  /\ UNCHANGED <<link, rpc, probe, active>>

GoOnline(p) ==
  /\ news = "online" /\ news' = "none"
  /\ IF active THEN probe[p] = "none" /\ Refreshed(p) ELSE UNCHANGED <<probe, online>>
  /\ UNCHANGED <<link, rpc, active>>

FaultyInterval(p) ==
  /\ active /\ probe[p] = "none"
  /\ online' = link
  /\ UNCHANGED <<link, news, rpc, probe, active>>
Interval(p) ==
  /\ active /\ probe[p] = "none"
  /\ Refreshed(p)
  /\ UNCHANGED <<link, news, rpc, active>>

\* The refresh ends; the link is read again.
Show(p, reachable) == /\ probe' = [probe EXCEPT ![p] = "none"]
                      /\ online' = IF active THEN link /\ reachable ELSE online

\* getHealth; if it fails, the RPC is not reachable.
Health(p) ==
  /\ probe[p] = "health"
  /\ IF rpc THEN probe' = [probe EXCEPT ![p] = "entries"] /\ UNCHANGED online
            ELSE Show(p, FALSE)
  /\ UNCHANGED <<link, news, rpc, active>>

\* getLedgerEntries: reachable whether it answers or fails.
Entries(p) ==
  /\ probe[p] = "entries"
  /\ Show(p, TRUE)
  /\ UNCHANGED <<link, news, rpc, active>>

Unmount ==
  /\ active /\ active' = FALSE
  /\ UNCHANGED <<link, news, rpc, probe, online>>

Handle == \E p \in Probe : Health(p) \/ Entries(p)
OnlineNext ==
  \/ LinkChanges \/ RpcChanges \/ GoOffline \/ Handle \/ Unmount
  \/ \E p \in Probe : GoOnline(p) \/ Interval(p)

----------------------------------------------------------------------------
(* Properties.                                                             *)

\* The hook settles: when the RPC is reachable for good, or the link or the RPC is gone
\* for good, what it shows becomes and stays right, whatever older refreshes still bring.
StatusSettles ==
  /\ <>[](active /\ link /\ rpc) => <>[] online
  /\ <>[](active /\ ~ link) \/ <>[](active /\ ~ rpc) => <>[] ~ online
=============================================================================

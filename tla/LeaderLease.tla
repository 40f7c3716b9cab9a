---------------------------- MODULE LeaderLease ----------------------------
(***************************************************************************)
(* What the hub's leader election promises, with no lease record, no      *)
(* timers and no callbacks: at most one live process leads at a time; a   *)
(* process may lead only while nobody else does; a process whose          *)
(* leadership ended is retired, and a retired process never leads again   *)
(* until the process is restarted (master() starts RunOrDie once per run  *)
(* of the process). Crash and restart are the process's.                  *)
(***************************************************************************)
CONSTANTS Proc, NoLeader

VARIABLES leader,   \* the leading process, or NoLeader
          retired,  \* live processes whose RunOrDie has returned
          alive     \* running processes

vars == <<leader, retired, alive>>

TypeOK ==
    /\ leader \in Proc \cup {NoLeader}
    /\ retired \subseteq Proc
    /\ alive \subseteq Proc

Init ==
    /\ leader = NoLeader
    /\ retired = {}
    /\ alive = Proc

Elect(p) ==
    /\ leader = NoLeader
    /\ p \in alive \ retired
    /\ leader' = p
    /\ UNCHANGED <<retired, alive>>

Resign(p) ==
    /\ leader = p
    /\ leader' = NoLeader
    /\ retired' = retired \cup {p}
    /\ UNCHANGED alive

Stop(p) ==
    /\ p \in alive
    /\ alive' = alive \ {p}
    /\ retired' = retired \ {p}
    /\ leader' = IF leader = p THEN NoLeader ELSE leader

Start(p) ==
    /\ p \notin alive
    /\ alive' = alive \cup {p}
    /\ UNCHANGED <<leader, retired>>

Next == \E p \in Proc : Elect(p) \/ Resign(p) \/ Stop(p) \/ Start(p)

Spec == Init /\ [][Next]_vars

=============================================================================

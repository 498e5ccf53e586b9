------------------------------- MODULE BulkDump -------------------------------
(***************************************************************************)
(* Bulk dumps: the receive loop answers a comparison by sending every      *)
(* entry of the differing ranges, on a paced task of its own.  A peer has  *)
(* at most one dump, and all peers share a budget.  A dump that finds no   *)
(* slot stashes its ranges.                                                *)
(*                                                                         *)
(* A list of ranges is the set of keys it covers.  Admission control       *)
(* (module BulkAdmission) may refuse any dump.                             *)
(***************************************************************************)
EXTENDS Bulk, Integers, FiniteSets

CONSTANTS
    Keys,
    Budget,      \* max_concurrent_bulk_dumps
    MaxCompares  \* bound

ASSUME DumpAssumption ==
    /\ IsFiniteSet(Peers) /\ IsFiniteSet(Channels) /\ IsFiniteSet(Keys)
    /\ Budget \in Nat /\ MaxCompares \in Nat

Calls == [pc : {"claim", "budget", "stash", "admit", "drop", "free"},
          work : Work, ranges : SUBSET Keys]

Tasks == [pc : {"send", "drain", "drop", "free"}, ranges : SUBSET Keys]

ASSUME NoCall == None \notin Calls \cup Tasks

VARIABLES
    held,       \* keys with an entry in the map and in the projection
    in_flight,  \* bulk_in_flight
    count,      \* bulk_dumps_in_flight
    stash,      \* pending_dumps and pending_value_dumps
    call,       \* the dump the receive loop is starting
    tasks,      \* the paced tasks
    owed,       \* what was promised to each peer and not sent yet
    compares    \* comparisons answered

dumpVars == <<held, in_flight, count, stash, call, tasks, owed, compares>>

Write(k) ==
    /\ k \notin held
    /\ held' = held \cup {k}
    /\ UNCHANGED <<in_flight, count, stash, call, tasks, owed, compares>>

(***************************************************************************)
(* start_dated_dump and start_value_dump, in the receive loop.             *)
(***************************************************************************)
Compare(w, ranges) ==
    /\ call = None
    /\ compares < MaxCompares
    /\ compares' = compares + 1
    /\ call' = [pc |-> "claim", work |-> w, ranges |-> ranges]
    /\ UNCHANGED <<held, in_flight, count, stash, tasks, owed>>

At(pc) == call # None /\ call.pc = pc

ClaimPeer ==
    /\ At("claim")
    /\ LET p == PeerOf(call.work)
       IN  /\ in_flight' = in_flight \cup {p}
           /\ call' = [call EXCEPT !.pc = IF p \in in_flight THEN "stash" ELSE "budget"]
    /\ UNCHANGED <<held, count, stash, tasks, owed, compares>>

\* MUTANT of ClaimBudget: the peer's mark is not taken back.
ClaimBudgetLeaks ==
    /\ At("budget")
    /\ IF count < Budget
         THEN count' = count + 1 /\ call' = [call EXCEPT !.pc = "admit"]
         ELSE call' = [call EXCEPT !.pc = "stash"] /\ UNCHANGED count
    /\ UNCHANGED <<held, in_flight, stash, tasks, owed, compares>>

\* Without budget the peer's mark is taken back.
ClaimBudget ==
    /\ At("budget")
    /\ IF count < Budget
         THEN /\ count' = count + 1
              /\ call' = [call EXCEPT !.pc = "admit"]
              /\ UNCHANGED in_flight
         ELSE /\ in_flight' = in_flight \ {PeerOf(call.work)}
              /\ call' = [call EXCEPT !.pc = "stash"]
              /\ UNCHANGED count
    /\ UNCHANGED <<held, stash, tasks, owed, compares>>

Stash ==
    /\ At("stash")
    /\ stash' = [stash EXCEPT ![call.work] = @ \cup call.ranges]
    /\ owed' = [owed EXCEPT ![call.work] = @ \cup call.ranges]
    /\ call' = None
    /\ UNCHANGED <<held, in_flight, count, tasks, compares>>

\* MUTANT of Deny: the stash is taken before admission is asked.
DenyAfterTaking ==
    /\ At("admit")
    /\ call' = [call EXCEPT !.pc = "drop"]
    /\ stash' = [stash EXCEPT ![call.work] = {}]
    /\ UNCHANGED <<held, in_flight, count, tasks, owed, compares>>

Deny ==
    /\ At("admit")
    /\ call' = [call EXCEPT !.pc = "drop"]
    /\ UNCHANGED <<held, in_flight, count, stash, tasks, owed, compares>>

\* Stashed work joins the admitted dump; with nothing to send no task is spawned.
Admit ==
    /\ At("admit")
    /\ LET w == call.work
           ranges == stash[w] \cup call.ranges
       IN  /\ stash' = [stash EXCEPT ![w] = {}]
           /\ IF ranges \cap held = {}
                THEN /\ call' = [call EXCEPT !.pc = "drop"]
                     /\ owed' = [owed EXCEPT ![w] = @ \ ranges]
                     /\ UNCHANGED tasks
                ELSE /\ tasks' = [tasks EXCEPT ![w] = [pc |-> "send", ranges |-> ranges]]
                     /\ owed' = [owed EXCEPT ![w] = @ \cup ranges]
                     /\ call' = None
    /\ UNCHANGED <<held, in_flight, count, compares>>

\* The guards are dropped one after the other, the budget's first.
CallDrop ==
    /\ At("drop")
    /\ count' = count - 1
    /\ call' = [call EXCEPT !.pc = "free"]
    /\ UNCHANGED <<held, in_flight, stash, tasks, owed, compares>>

CallFree ==
    /\ At("free")
    /\ in_flight' = in_flight \ {PeerOf(call.work)}
    /\ call' = None
    /\ UNCHANGED <<held, count, stash, tasks, owed, compares>>

Loop == ClaimPeer \/ ClaimBudget \/ Stash \/ Deny \/ Admit \/ CallDrop \/ CallFree

(***************************************************************************)
(* The task of spawn_paced_send.                                           *)
(***************************************************************************)
TaskAt(w, pc) == tasks[w] # None /\ tasks[w].pc = pc

SendDone(w) ==
    /\ TaskAt(w, "send")
    /\ tasks' = [tasks EXCEPT ![w].pc = "drain"]
    /\ owed' = [owed EXCEPT ![w] = @ \ (tasks[w].ranges \ stash[w])]
    /\ UNCHANGED <<held, in_flight, count, stash, call, compares>>

\* MUTANT of Drain: the task ends after its own ranges.
DrainNothing(w) ==
    /\ TaskAt(w, "drain")
    /\ tasks' = [tasks EXCEPT ![w] = [pc |-> "drop", ranges |-> {}]]
    /\ UNCHANGED <<held, in_flight, count, stash, call, owed, compares>>

Drain(w) ==
    /\ TaskAt(w, "drain")
    /\ stash' = [stash EXCEPT ![w] = {}]
    /\ IF stash[w] \cap held = {}
         THEN /\ tasks' = [tasks EXCEPT ![w] = [pc |-> "drop", ranges |-> {}]]
              /\ owed' = [owed EXCEPT ![w] = @ \ stash[w]]
         ELSE /\ tasks' = [tasks EXCEPT ![w] = [pc |-> "send", ranges |-> stash[w]]]
              /\ UNCHANGED owed
    /\ UNCHANGED <<held, in_flight, count, call, compares>>

TaskDrop(w) ==
    /\ TaskAt(w, "drop")
    /\ count' = count - 1
    /\ tasks' = [tasks EXCEPT ![w].pc = "free"]
    /\ UNCHANGED <<held, in_flight, stash, call, owed, compares>>

\* MUTANT of TaskFree: the peer's mark stays.
TaskFreeKeepsMark(w) ==
    /\ TaskAt(w, "free")
    /\ tasks' = [tasks EXCEPT ![w] = None]
    /\ UNCHANGED <<held, in_flight, count, stash, call, owed, compares>>

TaskFree(w) ==
    /\ TaskAt(w, "free")
    /\ in_flight' = in_flight \ {PeerOf(w)}
    /\ tasks' = [tasks EXCEPT ![w] = None]
    /\ UNCHANGED <<held, count, stash, call, owed, compares>>

Task(w) == SendDone(w) \/ Drain(w) \/ TaskDrop(w) \/ TaskFree(w)

DumpInit ==
    /\ held = {} /\ in_flight = {} /\ count = 0
    /\ stash = [w \in Work |-> {}]
    /\ call = None
    /\ tasks = [w \in Work |-> None]
    /\ owed = [w \in Work |-> {}]
    /\ compares = 0

DumpNext ==
    \/ \E k \in Keys : Write(k)
    \/ \E w \in Work, ranges \in (SUBSET Keys) \ {{}} : Compare(w, ranges)
    \/ Loop
    \/ \E w \in Work : Task(w)

\* The runtime keeps polling the receive loop and every task; nothing makes a
\* peer send another comparison.
DumpFairness == WF_dumpVars(Loop) /\ \A w \in Work : WF_dumpVars(Task(w))

DumpSpec == DumpInit /\ [][DumpNext]_dumpVars /\ DumpFairness

(***************************************************************************)
(* Properties.                                                             *)
(***************************************************************************)
\* Every mark and every unit of the budget belongs to exactly one dump: guards are
\* never leaked or dropped twice on any path, a peer has one dump at a time, and the
\* budget is never exceeded.
SlotsAccounted ==
    LET CallAt(pcs) == IF call # None /\ call.pc \in pcs THEN {call.work} ELSE {}
        TasksAt(pcs) == {w \in Work : tasks[w] # None /\ tasks[w].pc \in pcs}
        Marks(p) == {w \in CallAt({"budget", "admit", "drop", "free"}) : PeerOf(w) = p}
        Running(p) == {w \in TasksAt({"send", "drain", "drop", "free"}) : PeerOf(w) = p}
    IN  /\ \A p \in Peers : Cardinality(Marks(p)) + Cardinality(Running(p))
                               = (IF p \in in_flight THEN 1 ELSE 0)
        /\ count <= Budget
        /\ count = Cardinality(CallAt({"admit", "drop"}))
                     + Cardinality(TasksAt({"send", "drain", "drop"}))

\* Ranges that were not refused stay stashed or with a task until they are sent,
\* whatever refusals and races happen meanwhile.
NothingForgotten ==
    \A w \in Work : owed[w] \subseteq
        stash[w] \cup (IF TaskAt(w, "send") THEN tasks[w].ranges ELSE {})

\* Ranges stashed while the peer's dump on the same channel is still sending are
\* sent by that dump: nothing else has to happen.
ActiveTaskDrains ==
    \A w \in Work : (stash[w] # {} /\ TaskAt(w, "send")) ~> (stash[w] = {})

\* A dump ends: its slot is free again for the next comparison.
SlotsReturn ==
    \A p \in Peers : (p \in in_flight) ~> (p \notin in_flight)

\* What pending_dumps documents: a dump that lost the slot race is picked up without
\* another datagram.
StashIsDrained ==
    \A w \in Work : (stash[w] # {}) ~> (stash[w] = {})
==============================================================================

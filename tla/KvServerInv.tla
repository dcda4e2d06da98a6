----------------------------- MODULE KvServerInv ------------------------------
(***************************************************************************)
(* The inductive invariant of KvServer: which stores are mapped, what each *)
(* handler has found by the time it is at a step, and how far the counters *)
(* are from the replies.                                                   *)
(***************************************************************************)
EXTENDS KvServer

PCs == {"none", "start", "lookup", "health", "count", "return"}

Replies == [ok : BOOLEAN, results : Seq(Values \cup {None} \cup Nat)]

Tasks ==
  [pc : PCs, request : Requests \cup {NoRequest}, store : Nat,
   results : Seq(Values \cup {None}), reply : {None} \cup Replies]

StateInv ==
  /\ stores \in Seq(Snapshots)
  /\ Len(stores) \in 1..MaxReloads + 1
  /\ current = Len(stores)
  /\ task \in [Clients -> Tasks]
  /\ metrics \in [{"requests", "hits", "misses", "errors", "latency"} -> Nat]
  /\ replies \in [{"ok", "err", "health"} -> Nat]

\* Exactly the stores that the swap or a handler holds are mapped.
MappedInv == mapped = InUse(current, task) \ {0}

\* The results so far are those of the store the handler has loaded.
Found(me) ==
  /\ Len(me.results) <= Len(me.request.keys)
  /\ \A i \in 1..Len(me.results) :
       /\ me.request.keys[i] # BadKey
       /\ me.results[i] = Lookup(stores[me.store].map, me.request.keys[i])

\* What a handler has done by the time it is at a step.
TaskInv(me) ==
  /\ me.store \in 0..Len(stores)
  /\ me.pc = "none" => me = NoTask
  /\ me.pc # "none" => me.request \in Requests
  /\ me.pc = "start" => me.store = 0 /\ me.results = <<>>
  /\ me.pc \in {"lookup", "health", "count"} => me.store # 0
  /\ me.pc = "health" => me.request.kind = "health"
  /\ me.pc \in {"lookup", "count"} => me.request.kind # "health" /\ Found(me)
  /\ me.pc = "count" => Len(me.results) = Len(me.request.keys)
  /\ me.pc = "return" => me.reply \in Replies

IInv ==
  /\ StateInv
  /\ MappedInv
  /\ \A c \in Clients : TaskInv(task[c])
  /\ CountersAddUp

===============================================================================

--------------------------- MODULE L1iStandalone ---------------------------
(***************************************************************************)
(* The L1 instruction cache of the simulator, class Cache_L1i_Standalone:  *)
(* its step, in which the cache fills the lines that L2 has returned and   *)
(* then serves fetch ("f") and prefetch ("pf") requests, and the calls its *)
(* client (the CPU) makes between two steps.                               *)
(*                                                                         *)
(* The program is single-threaded.  A step of the cache is a run of loops, *)
(* and an action is one iteration of one of them; pc names the loop.  In   *)
(* pc = "cpu" the step is over and the client may call, until it begins    *)
(* the next cycle.                                                         *)
(*                                                                         *)
(* A request is abstracted to its line: the Request object, its identity   *)
(* and the pool it is recycled through are not modelled here.              *)
(* The statistics (total_requests, total_misses) are left out as well.     *)
(***************************************************************************)
EXTENDS TagStore, Integers, FiniteSets

CONSTANTS
  Lines,                (* the cache lines that are ever requested          *)
  HitRequestBw,         (* hit_request_bw, or NoLimit                     *)
  MissLatency,          (* miss_latency                                     *)
  MissByteBw,           (* miss_byte_bw, or NoLimit                       *)
  InRequestBufferSize   (* in_request_buffer_size                           *)

NoLimit == -1

ASSUME L1iAssumption ==
  /\ Lines \subseteq Nat
  /\ HitRequestBw \in Nat \cup {NoLimit}
  /\ MissLatency \in Nat \ {0}
  /\ MissByteBw \in (Nat \ {0}) \cup {NoLimit}
  /\ InRequestBufferSize \in Nat

ReqObj == {"f", "pf"}

VARIABLES
  steps,                       (* the global cycle counter                  *)
  pc,                          (* the loop the cache's step is in           *)
  i,                           (* the loop counter `i' of step()            *)
  tag_store,
  super_in_miss_buffer,        (* cycle |-> lines L2 returns in that cycle  *)
  super_in_request_completion, (* outstanding line |-> the cycle it returns *)
  super_in_request_buffer,     (* requester |-> queue of requested lines    *)
  super_in_response_buffer,    (* the queue of responses to "f"; "pf" never *)
                               (* gets one                                  *)
  last_miss_cycle,
  last_miss_bytes

tagVars  == <<tag_store>>
mshrVars == <<super_in_miss_buffer, super_in_request_completion>>
ioVars   == <<super_in_request_buffer, super_in_response_buffer>>
bwVars   == <<last_miss_cycle, last_miss_bytes>>
l1iVars  == <<steps, pc, i, tagVars, mshrVars, ioVars, bwVars>>

Response == [da : Lines, response_time : Nat]

InCompletion(line) == line \in DOMAIN super_in_request_completion

-----------------------------------------------------------------------------
(* The constructor, and the start of the run: cycle 0 begins with a step.  *)
L1iInit ==
  /\ steps = 0
  /\ pc = "fill"
  /\ i = 0
  /\ tag_store = EmptyStore
  /\ super_in_miss_buffer = <<>>
  /\ super_in_request_completion = <<>>
  /\ super_in_request_buffer = [obj \in ReqObj |-> <<>>]
  /\ super_in_response_buffer = <<>>
  /\ last_miss_cycle = 0
  /\ last_miss_bytes = 0

-----------------------------------------------------------------------------
(* The fill loop.  The bound of the loop, the size of the miss buffer,     *)
(* shrinks as the loop runs: with n cycles due, about half are handled.    *)

(* Mutant: a cycle is due one too late.                                    *)
FillDue_late(k) ==
  /\ i < Cardinality(DOMAIN super_in_miss_buffer)
  /\ k \in DOMAIN super_in_miss_buffer
  /\ \A j \in DOMAIN super_in_miss_buffer : k <= j
  /\ k < steps

(* The first cycle in the ordered map is due.                              *)
FillDue(k) ==
  /\ i < Cardinality(DOMAIN super_in_miss_buffer)
  /\ k \in DOMAIN super_in_miss_buffer
  /\ \A j \in DOMAIN super_in_miss_buffer : k <= j
  /\ k <= steps

(* One line of the due cycle: filled, touched, no longer outstanding.  The *)
(* cycle's entry goes with its last line, and the loop counter advances.   *)
FillLine(k) ==
  LET requests == super_in_miss_buffer[k]
      line     == Head(requests)
      last     == Tail(requests) = <<>>
      cycles   == DOMAIN super_in_miss_buffer \ (IF last THEN {k} ELSE {})
  IN  /\ pc = "fill"
      /\ FillDue(k)
      /\ tag_store' = read(fill(tag_store, line), line)
      /\ super_in_request_completion' =
           [l \in DOMAIN super_in_request_completion \ {line} |->
              super_in_request_completion[l]]
      /\ super_in_miss_buffer' =
           [j \in cycles |-> IF j = k THEN Tail(requests)
                                      ELSE super_in_miss_buffer[j]]
      /\ i' = IF last THEN i + 1 ELSE i
      /\ UNCHANGED <<steps, pc, ioVars, bwVars>>

FillEnd ==
  /\ pc = "fill"
  /\ ~ \E k \in DOMAIN super_in_miss_buffer : FillDue(k)
  /\ pc' = "f"
  /\ i' = 0
  /\ UNCHANGED <<steps, tagVars, mshrVars, ioVars, bwVars>>

-----------------------------------------------------------------------------
(* L2_accept(): whether L2 takes one more miss in this cycle.              *)

InCycleBlock == steps < last_miss_cycle + (ClSize \div MissByteBw)

L2Busy ==
  /\ MissByteBw # NoLimit
  /\ InCycleBlock
  /\ last_miss_bytes + ClSize > MissByteBw

(* Mutant: a new block of cycles begins without being noted.               *)
L2_accept_stale ==
  /\ ~ L2Busy
  /\ UNCHANGED last_miss_cycle
  /\ IF MissByteBw = NoLimit
     THEN UNCHANGED last_miss_bytes
     ELSE last_miss_bytes' = IF InCycleBlock THEN last_miss_bytes + ClSize ELSE ClSize

L2_accept ==
  /\ ~ L2Busy
  /\ IF MissByteBw = NoLimit
     THEN UNCHANGED bwVars
     ELSE /\ last_miss_bytes' = IF InCycleBlock THEN last_miss_bytes + ClSize
                                                ELSE ClSize
          /\ last_miss_cycle' = IF InCycleBlock THEN last_miss_cycle ELSE steps

(* super_in_miss_buffer[steps + miss_latency].push_back and the entry in   *)
(* super_in_request_completion.                                            *)
AllocateMiss(line) ==
  LET due    == steps + MissLatency
      queued == IF due \in DOMAIN super_in_miss_buffer
                THEN super_in_miss_buffer[due] ELSE <<>>
  IN  /\ super_in_miss_buffer' =
           [k \in DOMAIN super_in_miss_buffer \cup {due} |->
              IF k = due THEN Append(queued, line)
                         ELSE super_in_miss_buffer[k]]
      /\ super_in_request_completion' =
           [l \in DOMAIN super_in_request_completion \cup {line} |->
              IF l = line THEN due ELSE super_in_request_completion[l]]

-----------------------------------------------------------------------------
(* The loop over fetch requests.                                           *)

HitBwLeft == HitRequestBw = NoLimit \/ i < HitRequestBw

NextRequest(obj, line) ==
  /\ super_in_request_buffer[obj] # <<>>
  /\ line = Head(super_in_request_buffer[obj])

PopRequest(obj) ==
  super_in_request_buffer' = [super_in_request_buffer EXCEPT ![obj] = Tail(@)]

(* Mutant: the newest response is handed out first.                        *)
Respond_at_front(line, completion_cycle) ==
  /\ PopRequest("f")
  /\ super_in_response_buffer' =
       <<[da |-> line, response_time |-> completion_cycle]>> \o super_in_response_buffer
  /\ i' = i + 1

(* The end of an iteration: the request leaves its queue with a response   *)
(* that may be picked up from completion_cycle on.                         *)
Respond(line, completion_cycle) ==
  /\ PopRequest("f")
  /\ super_in_response_buffer' =
       Append(super_in_response_buffer,
              [da |-> line, response_time |-> completion_cycle])
  /\ i' = i + 1

FetchHit(line) ==
  /\ pc = "f" /\ HitBwLeft /\ NextRequest("f", line)
  /\ can_read(tag_store, line)
  /\ tag_store' = read(tag_store, line)
  /\ Respond(line, steps)
  /\ UNCHANGED <<steps, pc, mshrVars, bwVars>>

(* Mutant: completion_cycle keeps its initial value in a merge.            *)
FetchMerge_at_once(line) ==
  /\ pc = "f" /\ HitBwLeft /\ NextRequest("f", line)
  /\ ~ can_read(tag_store, line)
  /\ InCompletion(line)
  /\ Respond(line, steps)
  /\ UNCHANGED <<steps, pc, tagVars, mshrVars, bwVars>>

(* Mutant: a merged fetch waits a whole miss latency.                      *)
FetchMerge_as_miss(line) ==
  /\ pc = "f" /\ HitBwLeft /\ NextRequest("f", line)
  /\ ~ can_read(tag_store, line)
  /\ InCompletion(line)
  /\ Respond(line, steps + MissLatency)
  /\ UNCHANGED <<steps, pc, tagVars, mshrVars, bwVars>>

(* A miss on a line that is already on its way.                            *)
FetchMerge(line) ==
  /\ pc = "f" /\ HitBwLeft /\ NextRequest("f", line)
  /\ ~ can_read(tag_store, line)
  /\ InCompletion(line)
  /\ Respond(line, super_in_request_completion[line])
  /\ UNCHANGED <<steps, pc, tagVars, mshrVars, bwVars>>

FetchMiss(line) ==
  /\ pc = "f" /\ HitBwLeft /\ NextRequest("f", line)
  /\ ~ can_read(tag_store, line)
  /\ ~ InCompletion(line)
  /\ L2_accept
  /\ AllocateMiss(line)
  /\ Respond(line, steps + MissLatency)
  /\ UNCHANGED <<steps, pc, tagVars>>

(* The loop ends at its bandwidth limit, with an empty queue, or at a miss *)
(* that L2 refuses; `i' goes on counting in the prefetch loop.             *)
FetchRefused ==
  \E line \in Lines : /\ NextRequest("f", line)
                      /\ ~ can_read(tag_store, line)
                      /\ ~ InCompletion(line)
                      /\ L2Busy

FetchEnd ==
  /\ pc = "f"
  /\ ~ HitBwLeft \/ super_in_request_buffer["f"] = <<>> \/ FetchRefused
  /\ pc' = "pf"
  /\ UNCHANGED <<steps, i, tagVars, mshrVars, ioVars, bwVars>>

-----------------------------------------------------------------------------
(* The loop over prefetch requests.                                        *)

(* The line is already on its way: the prefetch is done with.              *)
PrefetchMerge(line) ==
  /\ pc = "pf" /\ NextRequest("pf", line)
  /\ InCompletion(line)
  /\ PopRequest("pf")
  /\ UNCHANGED <<steps, pc, i, tagVars, mshrVars, super_in_response_buffer, bwVars>>

(* The line is there and a port is free: done with, and not touched in LRU *)
(* order.                                                                  *)
PrefetchHit(line) ==
  /\ pc = "pf" /\ NextRequest("pf", line)
  /\ ~ InCompletion(line)
  /\ can_read(tag_store, line)
  /\ HitBwLeft
  /\ PopRequest("pf")
  /\ i' = i + 1
  /\ UNCHANGED <<steps, pc, tagVars, mshrVars, super_in_response_buffer, bwVars>>

(* Mutant: a prefetch of a line that is on its way misses once more.       *)
PrefetchMissable_unmerged(line) ==
  /\ NextRequest("pf", line)
  /\ ~ (can_read(tag_store, line) /\ HitBwLeft)

(* A miss, or a "false miss": the line is there but no port is free to see *)
(* it, and L2 is asked for it again.                                       *)
PrefetchMissable(line) ==
  /\ NextRequest("pf", line)
  /\ ~ InCompletion(line)
  /\ ~ (can_read(tag_store, line) /\ HitBwLeft)

PrefetchMiss(line) ==
  /\ pc = "pf" /\ PrefetchMissable(line)
  /\ L2_accept
  /\ AllocateMiss(line)
  /\ PopRequest("pf")
  /\ UNCHANGED <<steps, pc, i, tagVars, super_in_response_buffer>>

PrefetchEnd ==
  /\ pc = "pf"
  /\ \/ super_in_request_buffer["pf"] = <<>>
     \/ \E line \in Lines : PrefetchMissable(line) /\ L2Busy
  /\ pc' = "cpu"
  /\ UNCHANGED <<steps, i, tagVars, mshrVars, ioVars, bwVars>>

-----------------------------------------------------------------------------
(* The client's calls.                                                     *)

(* A prefetch of an outstanding line is dropped; one too many in the queue *)
(* pushes the oldest out.  The call reports SUCCESS in every case.         *)
sub_send_request(obj, line) ==
  LET pushed == [super_in_request_buffer EXCEPT ![obj] = Append(@, line)]
  IN  IF obj = "pf" /\ InCompletion(line)
      THEN UNCHANGED super_in_request_buffer
      ELSE super_in_request_buffer' =
             IF Len(pushed["pf"]) > InRequestBufferSize
             THEN [pushed EXCEPT !["pf"] = Tail(@)]
             ELSE pushed

ClientSend(obj, line) ==
  /\ pc = "cpu"
  /\ sub_send_request(obj, line)
  /\ UNCHANGED <<steps, pc, i, tagVars, mshrVars, super_in_response_buffer, bwVars>>

(* sub_get_response("f") returns the front of the queue, if it is due.     *)
ResponseReady ==
  /\ super_in_response_buffer # <<>>
  /\ Head(super_in_response_buffer).response_time <= steps

ClientReceive ==
  /\ pc = "cpu"
  /\ ResponseReady
  /\ super_in_response_buffer' = Tail(super_in_response_buffer)
  /\ UNCHANGED <<steps, pc, i, tagVars, mshrVars, super_in_request_buffer, bwVars>>

(* The client's step is over; the next cycle begins with the cache's step. *)
NextCycle ==
  /\ pc = "cpu"
  /\ steps' = steps + 1
  /\ pc' = "fill"
  /\ i' = 0
  /\ UNCHANGED <<tagVars, mshrVars, ioVars, bwVars>>

-----------------------------------------------------------------------------
(* A step of the cache, and the component under any client.                *)

FillStep     == FillEnd \/ \E k \in DOMAIN super_in_miss_buffer : FillLine(k)
FetchStep    == FetchEnd \/ \E line \in Lines : FetchHit(line) \/ FetchMerge(line) \/ FetchMiss(line)
PrefetchStep == PrefetchEnd \/ \E line \in Lines : PrefetchMerge(line) \/ PrefetchHit(line) \/ PrefetchMiss(line)

CacheStep == FillStep \/ FetchStep \/ PrefetchStep

ClientStep ==
  \/ \E obj \in ReqObj, line \in Lines : ClientSend(obj, line)
  \/ ClientReceive
  \/ NextCycle

L1iNext == CacheStep \/ ClientStep

L1iSpec == L1iInit /\ [][L1iNext]_l1iVars

-----------------------------------------------------------------------------
(* Properties.                                                             *)

Dues == DOMAIN super_in_miss_buffer

MshrTypeOK ==
  /\ Dues \subseteq Nat /\ IsFiniteSet(Dues)
  /\ super_in_miss_buffer \in [Dues -> Seq(Lines)]
  /\ DOMAIN super_in_request_completion \subseteq Lines
  /\ super_in_request_completion \in [DOMAIN super_in_request_completion -> Nat]

QueuesTypeOK ==
  /\ super_in_request_buffer \in [ReqObj -> Seq(Lines)]
  /\ super_in_response_buffer \in Seq(Response)

ControlTypeOK ==
  /\ steps \in Nat
  /\ pc \in {"fill", "f", "pf", "cpu"}
  /\ i \in Nat
  /\ last_miss_cycle \in Nat
  /\ last_miss_bytes \in Nat

TagStoreTypeOK == tag_store \in [SetIndices -> CacheIndex]

(* Every variable of the cache has the type its declaration gives it.      *)
TypeOK == ControlTypeOK /\ MshrTypeOK /\ QueuesTypeOK /\ TagStoreTypeOK

BufferedOutstanding ==
  \A k \in Dues : \A n \in DOMAIN super_in_miss_buffer[k] :
    /\ InCompletion(super_in_miss_buffer[k][n])
    /\ super_in_request_completion[super_in_miss_buffer[k][n]] = k

BufferedOnce ==
  \A k \in Dues : \A m, n \in DOMAIN super_in_miss_buffer[k] :
    super_in_miss_buffer[k][m] = super_in_miss_buffer[k][n] => m = n

OutstandingBuffered ==
  \A line \in DOMAIN super_in_request_completion :
    /\ super_in_request_completion[line] \in Dues
    /\ \E n \in DOMAIN super_in_miss_buffer[super_in_request_completion[line]] :
         super_in_miss_buffer[super_in_request_completion[line]][n] = line

NoEmptyDue == \A k \in Dues : super_in_miss_buffer[k] # <<>>

(* The two tables of outstanding misses agree, though the fill loop and    *)
(* the miss paths of step() update them one after the other: a line is in  *)
(* the completion table exactly when it waits in the miss buffer, under    *)
(* the cycle the table gives, and it waits there once.                     *)
MshrCoherent == BufferedOutstanding /\ BufferedOnce /\ OutstandingBuffered /\ NoEmptyDue

(* The fill loop, whose bound shrinks as it runs, still leaves no line     *)
(* behind: once it ends, nothing outstanding is due, and what is           *)
(* outstanding is due within the miss latency.                             *)
NoOverdueMiss ==
  pc # "fill" => \A k \in Dues : steps < k /\ k <= steps + MissLatency

(* A response that is held back for a later cycle belongs to a line that   *)
(* is still on its way and arrives in exactly that cycle: no fetch waits   *)
(* for a miss that has come, or is answered before its line does.          *)
FetchBackedByMiss ==
  \A n \in DOMAIN super_in_response_buffer :
    LET response == super_in_response_buffer[n]
    IN  response.response_time > steps =>
          /\ InCompletion(response.da)
          /\ super_in_request_completion[response.da] = response.response_time

(* The two halves of a set agree, whatever fills and touches it has seen   *)
(* (the refill of a line that is already there included): the LRU list     *)
(* names each resident tag once and no other, and the set is within its    *)
(* associativity.                                                          *)
SetCoherent ==
  \A idx \in SetIndices :
    LET order == tag_store[idx].replacement_order
    IN  /\ {order[n] : n \in DOMAIN order} = tag_store[idx].ways
        /\ Len(order) = Cardinality(tag_store[idx].ways)
        /\ Len(order) <= Ways

(* No two lines share a way: a set never answers for more lines than it    *)
(* has ways, so the index and the tag together tell all lines apart        *)
(* (addr_bits is there "to ensure unique tags").                           *)
WaysNotShared ==
  \A idx \in SetIndices :
    Cardinality({line \in Lines : get_set_idx(line) = idx /\ can_read(tag_store, line)}) <= Ways

(* A prefetch that was taken into the queue leaves it only through the     *)
(* cache: a full queue pushes back on the client ("number of pending       *)
(* requests that can be held by L1i cache before back-pressuring occurs"). *)
QueuedPrefetchKept ==
  [][ pc = "cpu" /\ super_in_request_buffer["pf"] # <<>> =>
        /\ super_in_request_buffer'["pf"] # <<>>
        /\ Head(super_in_request_buffer'["pf"]) = Head(super_in_request_buffer["pf"]) ]_l1iVars

(* L2's bandwidth: in the cycles that the transfer of one line takes, no   *)
(* more bytes come back from L2 than miss_byte_bw allows ("the number of   *)
(* bytes that can be returned to the L1i cache from the L2 cache per       *)
(* cycle").                                                                *)
TransferCycles == (ClSize + MissByteBw - 1) \div MissByteBw

L2Bytes(first, cycles) ==
  ClSize * Cardinality({line \in DOMAIN super_in_request_completion :
                          super_in_request_completion[line] \in first .. first + cycles - 1})

BandwidthRespected ==
  MissByteBw # NoLimit =>
    \A k \in Dues : L2Bytes(k, TransferCycles) <= TransferCycles * MissByteBw

(* The fetch requests not yet answered to the client, oldest first.        *)
PendingFetches ==
  [n \in DOMAIN super_in_response_buffer |-> super_in_response_buffer[n].da]
    \o super_in_request_buffer["f"]

Channel ==
  INSTANCE FetchChannel WITH Items   <- Lines,
                             pending <- PendingFetches,
                             turn    <- IF pc = "cpu" THEN "client" ELSE "server"

(* Towards its client the cache is a first-in first-out channel: fetch     *)
(* requests are answered each once and in the order they were sent,        *)
(* whichever of them hit, and a step of the cache neither loses one nor    *)
(* makes one up.                                                           *)
FetchesInOrder == Channel!ChannelSpec
=============================================================================

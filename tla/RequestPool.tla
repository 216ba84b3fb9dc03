---------------------------- MODULE RequestPool -----------------------------
(***************************************************************************)
(* The Request objects behind the lines of L1iStandalone: the pool they    *)
(* are taken from (Request.cpp), the queues that point to them, and who    *)
(* gives them back.  A fetch miss is pointed to twice, by the miss buffer  *)
(* and by its response, and belongs to the response.                       *)
(*                                                                         *)
(* Each action is the action of L1iStandalone together with what it does   *)
(* to pointers.  L1iStandalone notes the line of a request when it is      *)
(* queued, the code reads request->da when it needs it; RequestsIntact     *)
(* says that the two are the same.                                         *)
(*                                                                         *)
(* Response objects have one owner each, the CPU deletes them, and the     *)
(* list of free responses stays empty (FreeResponse is called for "pf"     *)
(* only, which gets none).                                                 *)
(***************************************************************************)
EXTENDS L1iStandalone

VARIABLES
  heap,                (* the requests ever allocated, by address; a field *)
                       (* changes only when NewRequest recycles the object *)
  free_request_list,
  miss_requests,       (* cycle |-> the requests of super_in_miss_buffer   *)
  queued,              (* requester |-> those of super_in_request_buffer   *)
  answered,            (* those of super_in_response_buffer                *)
  dropped              (* history: the requests that were just let go      *)

poolVars    == <<heap, free_request_list>>
pointerVars == <<miss_requests, queued, answered>>
requestVars == <<l1iVars, poolVars, pointerVars, dropped>>

PoolInit ==
  /\ L1iInit
  /\ heap = <<>>
  /\ free_request_list = <<>>
  /\ miss_requests = <<>>
  /\ queued = [obj \in ReqObj |-> <<>>]
  /\ answered = <<>>
  /\ dropped = {}

FreeRequest(request) ==
  /\ free_request_list' = Append(free_request_list, request)
  /\ UNCHANGED heap

NothingFreed == UNCHANGED poolVars

(* The last object that was freed, or a new one.                           *)
NextFree ==
  IF free_request_list = <<>> THEN Len(heap) + 1
                              ELSE free_request_list[Len(free_request_list)]

NewRequest(obj, line) ==
  LET object == [req_obj |-> obj, da |-> line]
  IN  IF free_request_list = <<>>
      THEN heap' = Append(heap, object) /\ UNCHANGED free_request_list
      ELSE /\ heap' = [heap EXCEPT ![NextFree] = object]
           /\ free_request_list' = SubSeq(free_request_list, 1, Len(free_request_list) - 1)

-----------------------------------------------------------------------------
(* The cache's step.                                                       *)

(* Mutant: whoever asked for it, a request is freed with the fill.         *)
FillRequest_frees_all(k) ==
  LET request == Head(miss_requests[k])
  IN  /\ FillLine(k)
      /\ miss_requests' = [j \in DOMAIN super_in_miss_buffer' |->
                             IF j = k THEN Tail(miss_requests[k]) ELSE miss_requests[j]]
      /\ FreeRequest(request)
      /\ UNCHANGED <<queued, answered, dropped>>

(* A prefetch has done its duty once its line is filled.                   *)
FillRequest(k) ==
  LET request == Head(miss_requests[k])
  IN  /\ FillLine(k)
      /\ miss_requests' = [j \in DOMAIN super_in_miss_buffer' |->
                             IF j = k THEN Tail(miss_requests[k]) ELSE miss_requests[j]]
      /\ IF heap[request].req_obj = "pf" THEN FreeRequest(request) ELSE NothingFreed
      /\ UNCHANGED <<queued, answered, dropped>>

Dequeue(obj) == queued' = [queued EXCEPT ![obj] = Tail(@)]

(* super_in_miss_buffer[steps + miss_latency].push_back(request).          *)
RecordMiss(request) ==
  LET due == steps + MissLatency
  IN  miss_requests' =
        [k \in DOMAIN miss_requests \cup {due} |->
           IF k # due THEN miss_requests[k]
           ELSE Append(IF due \in DOMAIN miss_requests THEN miss_requests[due] ELSE <<>>,
                       request)]

ServeFetch(line) ==
  /\ \/ (FetchHit(line) \/ FetchMerge(line)) /\ UNCHANGED miss_requests
     \/ FetchMiss(line) /\ RecordMiss(Head(queued["f"]))
  /\ Dequeue("f")
  /\ answered' = Append(answered, Head(queued["f"]))
  /\ NothingFreed
  /\ UNCHANGED dropped

(* Mutant: a prefetch that hits is forgotten.                              *)
FinishPrefetch_leaks(line) ==
  /\ PrefetchMerge(line) \/ PrefetchHit(line)
  /\ Dequeue("pf")
  /\ IF PrefetchHit(line) THEN NothingFreed ELSE FreeRequest(Head(queued["pf"]))
  /\ UNCHANGED <<miss_requests, answered, dropped>>

(* A prefetch that hits, or whose line is on its way, is done with.        *)
FinishPrefetch(line) ==
  /\ PrefetchMerge(line) \/ PrefetchHit(line)
  /\ Dequeue("pf")
  /\ FreeRequest(Head(queued["pf"]))
  /\ UNCHANGED <<miss_requests, answered, dropped>>

(* Mutant: a prefetch is freed when it is passed on to L2.                 *)
IssuePrefetch_frees(line) ==
  /\ PrefetchMiss(line)
  /\ Dequeue("pf")
  /\ RecordMiss(Head(queued["pf"]))
  /\ FreeRequest(Head(queued["pf"]))
  /\ UNCHANGED <<answered, dropped>>

IssuePrefetch(line) ==
  /\ PrefetchMiss(line)
  /\ Dequeue("pf")
  /\ RecordMiss(Head(queued["pf"]))
  /\ NothingFreed
  /\ UNCHANGED <<answered, dropped>>

-----------------------------------------------------------------------------
(* The client's calls.                                                     *)

(* NewRequest, then sub_send_request.  Nobody keeps a prefetch that is     *)
(* ignored, nor the one that an overflow pushes out.                       *)
SendRequest(obj, line) ==
  LET request == NextFree
      pushed  == [queued EXCEPT ![obj] = Append(@, request)]
      ignored == obj = "pf" /\ InCompletion(line)
      full    == Len(pushed["pf"]) > InRequestBufferSize
  IN  /\ ClientSend(obj, line)
      /\ NewRequest(obj, line)
      /\ queued' = IF ignored THEN queued
                   ELSE IF full THEN [pushed EXCEPT !["pf"] = Tail(@)]
                   ELSE pushed
      /\ dropped' = dropped \cup IF ignored THEN {request}
                                 ELSE IF full THEN {Head(pushed["pf"])}
                                 ELSE {}
      /\ UNCHANGED <<miss_requests, answered>>

(* The CPU deletes the response, whose destructor frees the request.       *)
ReceiveResponse ==
  /\ ClientReceive
  /\ answered' = Tail(answered)
  /\ FreeRequest(Head(answered))
  /\ UNCHANGED <<miss_requests, queued, dropped>>

PassOn ==
  /\ FillEnd \/ FetchEnd \/ PrefetchEnd \/ NextCycle
  /\ UNCHANGED <<poolVars, pointerVars, dropped>>

PoolNext ==
  \/ PassOn
  \/ \E k \in DOMAIN super_in_miss_buffer : FillRequest(k)
  \/ \E line \in Lines : ServeFetch(line) \/ FinishPrefetch(line) \/ IssuePrefetch(line)
  \/ \E obj \in ReqObj, line \in Lines : SendRequest(obj, line)
  \/ ReceiveResponse

PoolSpec == PoolInit /\ [][PoolNext]_requestVars

-----------------------------------------------------------------------------
(* Properties.                                                             *)

Entries(seq) == {seq[n] : n \in DOMAIN seq}
Missing  == UNION {Entries(miss_requests[k]) : k \in DOMAIN miss_requests}
Waiting  == Entries(queued["f"]) \cup Entries(queued["pf"])
Held     == Missing \cup Waiting \cup Entries(answered)

(* A request that is still pointed to keeps the line and the requester it  *)
(* was made with: no queue ever sees a recycled object.  For a fetch miss  *)
(* this is because its response, with which the object is freed, cannot be *)
(* received before the line is filled.                                     *)
RequestsIntact ==
  /\ \A obj \in ReqObj : Len(queued[obj]) = Len(super_in_request_buffer[obj])
  /\ \A obj \in ReqObj : \A n \in DOMAIN queued[obj] :
       heap[queued[obj][n]] = [req_obj |-> obj, da |-> super_in_request_buffer[obj][n]]
  /\ \A k \in Dues : \A n \in DOMAIN super_in_miss_buffer[k] :
       heap[miss_requests[k][n]].da = super_in_miss_buffer[k][n]
  /\ \A n \in DOMAIN super_in_response_buffer :
       heap[answered[n]] = [req_obj |-> "f", da |-> super_in_response_buffer[n].da]

(* No request is freed twice or while it is pointed to, though the miss    *)
(* buffer and the response of a fetch miss share one.                      *)
FreedOnce ==
  /\ Cardinality(Entries(free_request_list)) = Len(free_request_list)
  /\ Entries(free_request_list) \cap Held = {}

(* Every request comes back to the pool, is pointed to, or was a prefetch  *)
(* that was ignored or pushed out; on no other path does one get lost.     *)
OnlyDroppedLost ==
  /\ DOMAIN heap = Entries(free_request_list) \cup Held \cup dropped
  /\ dropped \cap (Entries(free_request_list) \cup Held) = {}
=============================================================================

--------------------------- MODULE CacheHierarchy ---------------------------
(***************************************************************************)
(* The memory hierarchy that is built with l1i_standalone = false: an MMU, *)
(* a cache (Cache::step) and memory, under any client of the MMU.  Each    *)
(* level holds requests for the level above and asks the level below.      *)
(*                                                                         *)
(* A request is the address of a Request object: the tables that the MMU   *)
(* and the cache keep are keyed by it.  The tables of answers are keyed by *)
(* the cycle an answer is due in, so that two that were due in one cycle   *)
(* would be one.  pc is the part of the cycle that runs next: the cache's  *)
(* step ("fill", "lookup"), memory's, or the client's calls.               *)
(*                                                                         *)
(* Only the INSTRUCTION mmu is ever built, so every request is a FETCH.    *)
(* The statistics (total_requests, total_misses) are left out.             *)
(***************************************************************************)
EXTENDS TagStore, Integers, FiniteSets

CONSTANTS
  Requests,              (* the addresses that new Request may return      *)
  DataAddrs,             (* the addresses the client asks for              *)
  HitLatency,            (* cache_config.hit_latency                       *)
  InRequestBufferSize,   (* cache_config.in_request_buffer_size            *)
  BusSpeed, MemLatency, Mlp,   (* mem_config.bus_speed, .latency, .mlp     *)
  UninitRes              (* what the memory of a new Response may hold in  *)
                         (* response_res, which Memory::step does not set  *)

ASSUME HierarchyAssumption ==
  /\ DataAddrs \subseteq Nat
  /\ HitLatency \in Nat /\ InRequestBufferSize \in Nat
  /\ BusSpeed \in Nat /\ MemLatency \in Nat /\ Mlp \in Nat
  /\ UninitRes \subseteq {"SUCCESS", "FAIL"}

VARIABLES
  steps,
  pc,
  tag_store,
  cache_out_request_buffer,   (* Mmu: request |-> the client's address     *)
  super_in_request_buffer,    (* Cache: the queue of requests              *)
  sub_out_request_buffer,     (* Cache: request sent on |-> cycle it may   *)
                              (* return in                                 *)
  super_in_response_buffer,   (* Cache: cycle |-> request answered         *)
  mem_request_buffer,         (* Memory: its super_in_request_buffer       *)
  mem_response_buffer,        (* Memory: its super_in_response_buffer,     *)
                              (* cycle |-> request and response_res        *)
  bus_last_use_step,
  asked,                      (* history: request |-> cycle the MMU sent   *)
                              (* it in                                     *)
  lost                        (* history: requests whose answer the cache  *)
                              (* took for a FAIL                           *)

mmuVars   == <<cache_out_request_buffer, asked>>
cacheVars == <<tag_store, super_in_request_buffer, sub_out_request_buffer,
               super_in_response_buffer, lost>>
memVars   == <<mem_request_buffer, mem_response_buffer, bus_last_use_step>>
hierVars  == <<steps, pc, mmuVars, cacheVars, memVars>>

line(r) == cache_out_request_buffer[r] \div ClSize

(* The first entry of a map of answers, if it is due.                      *)
Due(responses, k) ==
  /\ k \in DOMAIN responses /\ k <= steps
  /\ \A j \in DOMAIN responses : k <= j

AnswerDue(responses) == \E k \in DOMAIN responses : Due(responses, k)

(* map[key] = value and map.erase(key).                                    *)
Put(map, key, value) ==
  [k \in DOMAIN map \cup {key} |-> IF k = key THEN value ELSE map[k]]
Erase(map, key) == [k \in DOMAIN map \ {key} |-> map[k]]

HierInit ==
  /\ steps = 0
  /\ pc = "fill"
  /\ tag_store = EmptyStore
  /\ cache_out_request_buffer = <<>> /\ asked = <<>>
  /\ super_in_request_buffer = <<>>
  /\ sub_out_request_buffer = <<>>
  /\ super_in_response_buffer = <<>>
  /\ mem_request_buffer = <<>>
  /\ mem_response_buffer = <<>>
  /\ bus_last_use_step = 0
  /\ lost = {}

-----------------------------------------------------------------------------
(* Cache::step, first part: at most one answer from memory.                *)

(* Mutant: the answer is due a hit's latency after it has come.            *)
FillResponse_restarted(k) ==
  LET r == mem_response_buffer[k].request
  IN  /\ pc = "fill" /\ Due(mem_response_buffer, k)
      /\ mem_response_buffer[k].response_res = "SUCCESS"
      /\ mem_response_buffer' = Erase(mem_response_buffer, k)
      /\ tag_store' = fill(tag_store, line(r))
      /\ super_in_response_buffer' = Put(super_in_response_buffer, steps + HitLatency, r)
      /\ sub_out_request_buffer' = Erase(sub_out_request_buffer, r)
      /\ pc' = "lookup"
      /\ UNCHANGED <<steps, mmuVars, super_in_request_buffer, lost>>
      /\ UNCHANGED <<mem_request_buffer, bus_last_use_step>>

(* The line is filled; the request may return in the cycle that was noted  *)
(* when it was sent on.                                                    *)
FillResponse(k) ==
  LET r == mem_response_buffer[k].request
  IN  /\ pc = "fill" /\ Due(mem_response_buffer, k)
      /\ mem_response_buffer[k].response_res = "SUCCESS"
      /\ mem_response_buffer' = Erase(mem_response_buffer, k)
      /\ tag_store' = fill(tag_store, line(r))
      /\ super_in_response_buffer' =
           Put(super_in_response_buffer, sub_out_request_buffer[r], r)
      /\ sub_out_request_buffer' = Erase(sub_out_request_buffer, r)
      /\ pc' = "lookup"
      /\ UNCHANGED <<steps, mmuVars, super_in_request_buffer, lost>>
      /\ UNCHANGED <<mem_request_buffer, bus_last_use_step>>

(* "error": the answer goes and the request waits for ever.                *)
FailedResponse(k) ==
  /\ pc = "fill" /\ Due(mem_response_buffer, k)
  /\ mem_response_buffer[k].response_res = "FAIL"
  /\ mem_response_buffer' = Erase(mem_response_buffer, k)
  /\ lost' = lost \cup {mem_response_buffer[k].request}
  /\ pc' = "lookup"
  /\ UNCHANGED <<steps, mmuVars, tag_store, super_in_request_buffer>>
  /\ UNCHANGED <<sub_out_request_buffer, super_in_response_buffer>>
  /\ UNCHANGED <<mem_request_buffer, bus_last_use_step>>

NoResponse ==
  /\ pc = "fill" /\ ~ AnswerDue(mem_response_buffer)
  /\ pc' = "lookup"
  /\ UNCHANGED <<steps, mmuVars, cacheVars, memVars>>

-----------------------------------------------------------------------------
(* Memory::sub_send_request, where the bus is not free again for bus_speed *)
(* cycles after each use.                                                  *)

BusReady ==
  /\ bus_last_use_step + BusSpeed <= steps
  /\ Len(mem_request_buffer) < Mlp

MemSend(r) ==
  /\ mem_request_buffer' = Append(mem_request_buffer, r)
  /\ bus_last_use_step' = steps
  /\ UNCHANGED mem_response_buffer

(* Cache::step, second part: at most one request is looked up.             *)

Front(r) == super_in_request_buffer # <<>> /\ r = Head(super_in_request_buffer)

LookupHit(r) ==
  /\ pc = "lookup" /\ Front(r)
  /\ can_read(tag_store, line(r))
  /\ tag_store' = read(tag_store, line(r))
  /\ super_in_response_buffer' = Put(super_in_response_buffer, steps + HitLatency, r)
  /\ super_in_request_buffer' = Tail(super_in_request_buffer)
  /\ pc' = "memory"
  /\ UNCHANGED <<steps, mmuVars, sub_out_request_buffer, lost, memVars>>

(* Mutant: a request that memory does not take leaves the queue as well.   *)
LookupMiss_unretried(r) ==
  /\ pc = "lookup" /\ Front(r)
  /\ ~ can_read(tag_store, line(r))
  /\ IF BusReady
     THEN /\ MemSend(r)
          /\ sub_out_request_buffer' = Put(sub_out_request_buffer, r, steps + HitLatency)
     ELSE UNCHANGED <<sub_out_request_buffer, memVars>>
  /\ super_in_request_buffer' = Tail(super_in_request_buffer)
  /\ pc' = "memory"
  /\ UNCHANGED <<steps, mmuVars, tag_store, super_in_response_buffer, lost>>

(* A miss that memory does not take is tried again in the next cycle.      *)
LookupMiss(r) ==
  /\ pc = "lookup" /\ Front(r)
  /\ ~ can_read(tag_store, line(r))
  /\ IF BusReady
     THEN /\ MemSend(r)
          /\ sub_out_request_buffer' = Put(sub_out_request_buffer, r, steps + HitLatency)
          /\ super_in_request_buffer' = Tail(super_in_request_buffer)
     ELSE UNCHANGED <<super_in_request_buffer, sub_out_request_buffer, memVars>>
  /\ pc' = "memory"
  /\ UNCHANGED <<steps, mmuVars, tag_store, super_in_response_buffer, lost>>

NoLookup ==
  /\ pc = "lookup" /\ super_in_request_buffer = <<>>
  /\ pc' = "memory"
  /\ UNCHANGED <<steps, mmuVars, cacheVars, memVars>>

-----------------------------------------------------------------------------
(* Memory::step: one request a cycle, if fewer than mlp answers wait.      *)

Servable ==
  mem_request_buffer # <<>> /\ Cardinality(DOMAIN mem_response_buffer) < Mlp

(* Mutant: the latency counts from the last use of the bus.                *)
MemoryServe_from_bus(res) ==
  /\ pc = "memory" /\ Servable
  /\ mem_request_buffer' = Tail(mem_request_buffer)
  /\ mem_response_buffer' =
       Put(mem_response_buffer, bus_last_use_step + MemLatency,
           [request |-> Head(mem_request_buffer), response_res |-> res])
  /\ pc' = "client"
  /\ UNCHANGED <<steps, mmuVars, cacheVars, bus_last_use_step>>

MemoryServe(res) ==
  /\ pc = "memory" /\ Servable
  /\ mem_request_buffer' = Tail(mem_request_buffer)
  /\ mem_response_buffer' =
       Put(mem_response_buffer, steps + MemLatency,
           [request |-> Head(mem_request_buffer), response_res |-> res])
  /\ pc' = "client"
  /\ UNCHANGED <<steps, mmuVars, cacheVars, bus_last_use_step>>

MemoryIdle ==
  /\ pc = "memory" /\ ~ Servable
  /\ pc' = "client"
  /\ UNCHANGED <<steps, mmuVars, cacheVars, memVars>>

-----------------------------------------------------------------------------
(* The MMU's calls.                                                        *)

CacheFull == Len(super_in_request_buffer) >= InRequestBufferSize

(* send_request: a new request for the cache; if the cache is full, the    *)
(* request is deleted again and nothing has happened.                      *)
send_request(r, da) ==
  /\ ~ CacheFull
  /\ r \notin DOMAIN cache_out_request_buffer
  /\ super_in_request_buffer' = Append(super_in_request_buffer, r)
  /\ cache_out_request_buffer' = Put(cache_out_request_buffer, r, da)
  /\ asked' = Put(asked, r, steps)
  /\ UNCHANGED <<steps, pc, tag_store, sub_out_request_buffer>>
  /\ UNCHANGED <<super_in_response_buffer, lost, memVars>>

(* get_response: the answer due first, and with it the request, are gone.  *)
get_response(k) ==
  LET r == super_in_response_buffer[k]
  IN  /\ Due(super_in_response_buffer, k)
      /\ super_in_response_buffer' = Erase(super_in_response_buffer, k)
      /\ cache_out_request_buffer' = Erase(cache_out_request_buffer, r)
      /\ asked' = Erase(asked, r)
      /\ UNCHANGED <<steps, pc, tag_store, super_in_request_buffer>>
      /\ UNCHANGED <<sub_out_request_buffer, lost, memVars>>

EndCycle ==
  /\ pc = "client"
  /\ steps' = steps + 1
  /\ pc' = "fill"
  /\ UNCHANGED <<mmuVars, cacheVars, memVars>>

-----------------------------------------------------------------------------
FillPart   == NoResponse \/ \E k \in DOMAIN mem_response_buffer : FillResponse(k) \/ FailedResponse(k)
LookupPart == NoLookup \/ \E r \in Requests : LookupHit(r) \/ LookupMiss(r)
MemoryPart == MemoryIdle \/ \E res \in UninitRes : MemoryServe(res)

HierStep == FillPart \/ LookupPart \/ MemoryPart

MmuCall ==
  /\ pc = "client"
  /\ \/ \E r \in Requests, da \in DataAddrs : send_request(r, da)
     \/ \E k \in DOMAIN super_in_response_buffer : get_response(k)

HierNext == HierStep \/ MmuCall \/ EndCycle

HierSpec == HierInit /\ [][HierNext]_hierVars

-----------------------------------------------------------------------------
(* Properties.                                                             *)

Entries(seq)  == {seq[n] : n \in DOMAIN seq}
Answered      == {super_in_response_buffer[k] : k \in DOMAIN super_in_response_buffer}
MemAnswered   == {mem_response_buffer[k].request : k \in DOMAIN mem_response_buffer}
InMemory      == Entries(mem_request_buffer) \cup MemAnswered
SentOn        == DOMAIN sub_out_request_buffer
InCache       == Entries(super_in_request_buffer) \cup SentOn \cup Answered

(* Every variable of the hierarchy has the type its declaration gives it.  *)
HierTypeOK ==
  /\ steps \in Nat
  /\ pc \in {"fill", "lookup", "memory", "client"}
  /\ tag_store \in [SetIndices -> CacheIndex]
  /\ DOMAIN cache_out_request_buffer \subseteq Requests
  /\ cache_out_request_buffer \in [DOMAIN cache_out_request_buffer -> DataAddrs]
  /\ asked \in [DOMAIN cache_out_request_buffer -> Nat]
  /\ super_in_request_buffer \in Seq(Requests)
  /\ SentOn \subseteq Requests
  /\ sub_out_request_buffer \in [SentOn -> Nat]
  /\ DOMAIN super_in_response_buffer \subseteq Nat
  /\ super_in_response_buffer \in [DOMAIN super_in_response_buffer -> Requests]
  /\ mem_request_buffer \in Seq(Requests)
  /\ DOMAIN mem_response_buffer \subseteq Nat
  /\ mem_response_buffer \in [DOMAIN mem_response_buffer ->
                                [request : Requests, response_res : UninitRes]]
  /\ bus_last_use_step \in Nat
  /\ lost \subseteq Requests

(* No two answers are ever due in one cycle, so none overwrites another in *)
(* the cache's table: neither those that are there, nor those still to     *)
(* come from memory, whose cycle was set when they were sent.              *)
CompletionsDistinct ==
  /\ \A r \in SentOn : sub_out_request_buffer[r] \notin DOMAIN super_in_response_buffer
  /\ \A q, r \in SentOn :
       sub_out_request_buffer[q] = sub_out_request_buffer[r] => q = r

CacheLevel ==
  INSTANCE MemLevel WITH
    Latency  <- HitLatency + 1,
    now      <- steps,
    accepted <- asked,
    pending  <- InCache

(* The cache answers each request it accepts once at most and forgets      *)
(* none, and takes hit_latency cycles after the look-up at least, through  *)
(* refusals by memory, fills and hits under misses.                        *)
CacheAnswers == CacheLevel!LevelSpec

MemoryLevel ==
  INSTANCE MemLevel WITH
    Latency  <- MemLatency,
    now      <- steps,
    accepted <- [r \in SentOn \ lost |-> sub_out_request_buffer[r] - HitLatency],
    pending  <- InMemory

(* Memory answers each request it accepts once, after its latency at       *)
(* least; what the cache waits for in vain are only the answers whose      *)
(* response_res happened to read as FAIL.                                  *)
MemoryAnswers == MemoryLevel!LevelSpec
=============================================================================

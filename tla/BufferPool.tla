---------------------------- MODULE BufferPool ----------------------------
(***************************************************************************)
(* The buffers of one event loop: BufferPool (core/buffer.cc) and the      *)
(* completions that hand buffers back to it (core/event_loop.cc).  Send    *)
(* buffers are registered with the kernel and lent to zero copy sends by   *)
(* index; receive buffers are offered to the kernel in a ring.  Both pools *)
(* grow by a block of kBufferCount buffers up to kBufferEntriesMax.        *)
(*                                                                         *)
(* A buffer's address is <<pool, block, place in it>>, the blocks of each  *)
(* pool numbered.  The ring is the set of buffers offered: the kernel's    *)
(* order does not matter here.  The connections of completions are taken   *)
(* to exist still.                                                         *)
(***************************************************************************)
EXTENDS BitMap, Sequences, SequencesExt

CONSTANTS kBufferCount,       \* buffers in a block
          kBufferEntriesMax,  \* buffers of a kind at most
          MaxReceived,        \* bound: completed receives that wait
          NULL,               \* nullptr, or nothing registered
          Wild                \* what lies behind the end of recv_pool_

ASSUME WholeBlocks == /\ kBufferCount \in Nat \ {0}
                      /\ kBufferEntriesMax = bit_count
                      /\ kBufferEntriesMax % kBufferCount = 0
                      /\ MaxReceived \in Nat

VARIABLES send,       \* the send pool and its registrations, see SendPools
          zc,         \* per send buffer, how far the send that has it is
          recv_pool,  \* BufferPool::recv_pool_
          buf_ring,   \* the buffers offered to the kernel, <<bid, address>>
          received,   \* those the kernel has filled, their completions pending
          starved,    \* a receive has ended for want of a buffer
          ended       \* why the loop ended, or "no"

vars == <<send, zc, recv_pool, buf_ring, received, starved, ended>>

Entry == 0..(kBufferEntriesMax - 1)
MemoryBlock == 1..(kBufferEntriesMax \div kBufferCount + 1)
Address(pool) == {pool} \X MemoryBlock \X (0..(kBufferCount - 1))

ASSUME NullIsNoBuffer == NULL \notin Address("send") \cup Address("recv")

(* avaliable_buf_index_, send_buffer_count_, send_pool_; and in the kernel: *)
(* the memory registered for each index, the indices with a tag, and        *)
(* whether a tag has come back as a completion.                             *)
SendPools == [avaliable : BitMaps, count : Nat, pool : Seq(MemoryBlock),
              registered : [Entry -> Address("send") \cup {NULL}],
              tagged : SUBSET Entry, released : BOOLEAN]

(* How an attempt to get a block goes: posix_memalign fails, or the kernel  *)
(* registers so many of its buffers.                                        *)
NoMemory == -1
Outcome == {NoMemory} \cup 0..kBufferCount

recv_buffer_count == kBufferCount * Len(recv_pool)

(* A block that posix_memalign may return: any that is not in the pool. *)
FreshBlock(pool) == Min(MemoryBlock \ ToSet(pool))

BufferOf_First(pool, block, index) == <<pool, block, 0>>
BufferOf(pool, block, index) == <<pool, block, index % kBufferCount>>

(* io_uring_register_buffers_update_tag of a block at the index count, of  *)
(* which n buffers are registered: a registration that is replaced reports *)
(* its tag, and the first of the block gets one.                           *)
Registered(s, block, n) ==
  LET slots == s.count..(s.count + n - 1)
  IN [s EXCEPT !.registered = [i \in Entry |-> IF i \in slots THEN BufferOf("send", block, i) ELSE @[i]],
               !.tagged = IF n > 0 THEN @ \cup {s.count} ELSE @,
               !.released = @ \/ slots \cap s.tagged # {}]

AtLimit_OneLate(count) == count > kBufferEntriesMax
AtLimit(count) == count = kBufferEntriesMax

Grown_AnyOutcome(s, outcome) ==
  LET block == FreshBlock(s.pool)
      r == Registered(s, block, outcome)
  IN IF AtLimit(s.count) \/ outcome = NoMemory THEN s
     ELSE [r EXCEPT !.pool = Append(@, block),
                    !.avaliable = WithoutRange(@, s.count, kBufferCount),
                    !.count = @ + kBufferCount]

(* alloc_send_buffers: only a block registered whole joins the pool. *)
Grown(s, outcome) ==
  LET block == FreshBlock(s.pool)
      r == Registered(s, block, outcome)
  IN IF AtLimit(s.count) \/ outcome = NoMemory THEN s
     ELSE IF outcome # kBufferCount THEN r
     ELSE [r EXCEPT !.pool = Append(@, block),
                    !.avaliable = WithoutRange(@, s.count, kBufferCount),
                    !.count = @ + kBufferCount]
(* GetSendBufferIndex: the index, or NoIndex, and the pool after it. *)
GetSendBufferIndex(s, outcome) ==
  LET g == IF FirstFree(s.avaliable) = NoIndex THEN Grown(s, outcome) ELSE s
      index == FirstFree(g.avaliable)
  IN [index |-> index, send |-> [g EXCEPT !.avaliable = WithIndex(@, index)]]

GetSendBuffer(s, bidx) ==
  IF bidx \div kBufferCount < Len(s.pool)
  THEN BufferOf("send", s.pool[bidx \div kBufferCount + 1], bidx) ELSE NULL

(* The results GetRecvBuffer can have.  An index equal to the size passes   *)
(* its check and reads past the end of the vector.                          *)
GetRecvBuffer(bid) ==
  LET index == bid \div kBufferCount
  IN CASE index > Len(recv_pool) -> {NULL}
       [] index = Len(recv_pool) -> {NULL, Wild}
       [] OTHER -> {BufferOf("recv", recv_pool[index + 1], bid)}

(* The buffers of a block that is offered as the next of the pool. *)
Offered(block) == {<<recv_buffer_count + i, BufferOf("recv", block, i)>> : i \in 0..(kBufferCount - 1)}

EmptySend == [avaliable |-> Disabled, count |-> 0, pool |-> <<>>,
              registered |-> [i \in Entry |-> NULL], tagged |-> {}, released |-> FALSE]

(* The constructor: a block for each pool, the receive pool first. *)
Init == /\ recv_pool = <<1>>
        /\ buf_ring = {<<i, BufferOf("recv", 1, i)>> : i \in 0..(kBufferCount - 1)}
        /\ received = {}
        /\ starved = FALSE
        /\ send = Grown(EmptySend, kBufferCount)
        /\ zc = [i \in Entry |-> "none"]
        /\ ended = "no"

Running == ended = "no"

(* A handler gets a send buffer and submits a zero copy send from it; with  *)
(* NoIndex it closes its connection instead.                                *)
Send(outcome) ==
  LET got == GetSendBufferIndex(send, outcome)
  IN /\ Running
     /\ send' = got.send
     /\ zc' = IF got.index = NoIndex THEN zc ELSE [zc EXCEPT ![got.index] = "queued"]
     /\ UNCHANGED <<recv_pool, buf_ring, received, starved, ended>>

(* handle_send_zc for the result of a send: bytes sent, a cancellation or   *)
(* another error.  What GetRecvBuffer returns is only compared with NULL.   *)
HandleSendResult(bidx, res) ==
  /\ Running
  /\ zc[bidx] = "queued"
  /\ zc' = [zc EXCEPT ![bidx] = "reported"]
  /\ \/ /\ res = "canceled"
        /\ UNCHANGED ended
     \/ /\ res = "error"
        /\ ended' = "send_error"
     \/ /\ res = "sent"
        /\ \E buffer \in GetRecvBuffer(bidx) :
             ended' = IF buffer = NULL THEN "invalid_buffer" ELSE ended
  /\ UNCHANGED <<send, recv_pool, buf_ring, received, starved>>

(* ReplenishSendBuffer. *)
Replenished(s, bidx) == [s EXCEPT !.avaliable = WithoutIndex(@, bidx)]

(* handle_send_zc for the notification that follows the result, when the    *)
(* kernel has let go of the buffer.                                         *)
HandleNotification(bidx) ==
  /\ Running
  /\ zc[bidx] = "reported"
  /\ zc' = [zc EXCEPT ![bidx] = "none"]
  /\ send' = Replenished(send, bidx)
  /\ UNCHANGED <<recv_pool, buf_ring, received, starved, ended>>

(* A tag that comes back is a completion with the operation __BUF_REL,      *)
(* which EventHandler does not know.                                        *)
HandleRelease == /\ Running
                 /\ send.released
                 /\ send' = [send EXCEPT !.released = FALSE]
                 /\ ended' = "unknown_operation"
                 /\ UNCHANGED <<zc, recv_pool, buf_ring, received, starved>>

(* The kernel: data arrives in an offered buffer, or finds none. *)
KernelReceives(entry) == /\ Running
                         /\ Cardinality(received) < MaxReceived
                         /\ entry \in buf_ring
                         /\ buf_ring' = buf_ring \ {entry}
                         /\ received' = received \cup {entry}
                         /\ UNCHANGED <<send, zc, recv_pool, starved, ended>>

KernelStarves == /\ Running
                 /\ buf_ring = {}
                 /\ ~starved
                 /\ starved' = TRUE
                 /\ UNCHANGED <<send, zc, recv_pool, buf_ring, received, ended>>

(* handle_recv with a buffer, which is offered again whatever has become    *)
(* of the connection.                                                       *)
HandleReceive(entry) ==
  /\ Running
  /\ entry \in received
  /\ received' = received \ {entry}
  /\ \E buffer \in GetRecvBuffer(entry[1]) :
       \/ /\ buffer = NULL
          /\ ended' = "no_selected_buffer"
          /\ UNCHANGED buf_ring
       \/ /\ buffer # NULL
          /\ buf_ring' = buf_ring \cup {<<entry[1], buffer>>}
          /\ UNCHANGED ended
  /\ UNCHANGED <<send, zc, recv_pool, starved>>

(* alloc_recv_buffers. *)
GrowRecv(outcome) ==
  IF AtLimit(recv_buffer_count) \/ outcome = NoMemory
  THEN UNCHANGED <<recv_pool, buf_ring>>
  ELSE LET block == FreshBlock(recv_pool)
       IN /\ recv_pool' = Append(recv_pool, block)
          /\ buf_ring' = buf_ring \cup Offered(block)

(* handle_recv with ENOBUFS: the pool grows, if it can, and the receive is  *)
(* submitted again.                                                         *)
HandleStarved(outcome) == /\ Running
                          /\ starved
                          /\ starved' = FALSE
                          /\ GrowRecv(outcome)
                          /\ UNCHANGED <<send, zc, received, ended>>

Next == \/ \E outcome \in Outcome : Send(outcome)
        \/ \E bidx \in Entry, res \in {"sent", "canceled", "error"} : HandleSendResult(bidx, res)
        \/ \E bidx \in Entry : HandleNotification(bidx)
        \/ HandleRelease
        \/ \E entry \in buf_ring : KernelReceives(entry)
        \/ KernelStarves
        \/ \E entry \in received : HandleReceive(entry)
        \/ \E outcome \in {NoMemory, kBufferCount} : HandleStarved(outcome)

Spec == Init /\ [][Next]_vars

InUse == {i \in Entry : zc[i] # "none"}
Stock == 0..(send.count - 1)

(* Every variable keeps its shape, and both counts stop at the maximum. *)
TypeOK == /\ send \in SendPools
          /\ send.count = kBufferCount * Len(send.pool) /\ send.count <= kBufferEntriesMax
          /\ zc \in [Entry -> {"none", "queued", "reported"}]
          /\ recv_pool \in Seq(MemoryBlock) /\ recv_buffer_count <= kBufferEntriesMax
          /\ buf_ring \subseteq Entry \X Address("recv")
          /\ received \subseteq Entry \X Address("recv")
          /\ starved \in BOOLEAN
          /\ ended \in {"no", "send_error", "invalid_buffer", "unknown_operation",
                        "no_selected_buffer"}

(* avaliable_buf_index_ marks exactly the buffers that are with a send or   *)
(* not registered yet, and its used count counts them: no buffer is lost to *)
(* the pool over growth, refusals, cancellations and notifications that     *)
(* come in any order, and IsFull tells the truth.                           *)
BitsFollowLoans ==
  /\ {i \in Index : IsUsed(send.avaliable, i)} = InUse \cup (Entry \ Stock)
  /\ send.avaliable.used = Cardinality(InUse \cup (Entry \ Stock))

(* GetSendBufferIndex refuses only when every buffer is with a send and the *)
(* pool is at its maximum or cannot grow: what the comment at buffer.cc:119 *)
(* says, for every way the attempt to grow may go.                          *)
RefusedOnlyInNeed ==
  \A outcome \in Outcome :
    GetSendBufferIndex(send, outcome).index = NoIndex =>
      /\ InUse = Stock
      /\ send.count = kBufferEntriesMax \/ outcome # kBufferCount

(* The kernel sends from the memory the handler wrote: what is registered   *)
(* for an index in use is what GetSendBuffer gives for it, also after a     *)
(* growth that failed half way has left registrations of freed memory.      *)
KernelSendsWhatWasWritten ==
  \A i \in InUse : send.registered[i] = GetSendBuffer(send, i)

(* Every receive buffer is either offered or filled, once, under its own    *)
(* bid; the handler reads what the kernel filled; and no two buffers, of    *)
(* either pool, share memory.                                               *)
BuffersConserved ==
  LET places == buf_ring \cup received
      memory == {e[2] : e \in places} \cup {GetSendBuffer(send, i) : i \in Stock}
  IN /\ ended # "no_selected_buffer"
     /\ {e[1] : e \in places} = 0..(recv_buffer_count - 1)
     /\ Cardinality(memory) = Cardinality(places) + Cardinality(Stock)
     /\ Cardinality(places) = recv_buffer_count
     /\ \A e \in received : GetRecvBuffer(e[1]) = {e[2]}

(* Every operation of the bit map, on every bit map that arises and for     *)
(* every index and range, does to the set of used indices what it says, and *)
(* keeps the used count exact (tests/bitmap_test.cc checks a few).          *)
RangesAreExact ==
  LET m == send.avaliable
      used(n) == {i \in Index : IsUsed(n, i)}
      is(n, S) == used(n) = S /\ n.used = Cardinality(S)
  IN \A begin \in Index, count \in 0..bit_count :
       LET range == IF begin + count > bit_count THEN {} ELSE begin..(begin + count - 1)
       IN /\ is(WithRange(m, begin, count), used(m) \cup range)
          /\ is(WithoutRange(m, begin, count), used(m) \ range)
          /\ is(WithIndex(m, begin), used(m) \cup {begin})
          /\ is(WithoutIndex(m, begin), used(m) \ {begin})
          /\ is(Cleared, {})

(* The pool is a BufferLending: a buffer goes to one send at a time, and is *)
(* back only with its notification.                                         *)
At(stage) == {i \in Entry : zc[i] = stage}
Lending == INSTANCE BufferLending
             WITH stock <- Stock, sending <- At("queued"), held <- At("reported")
ImplementsBufferLending == Lending!Spec
=============================================================================

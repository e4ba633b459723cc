-------------------------------- MODULE MiimQueue --------------------------------
(***************************************************************************)
(* The queue of the modified inverse iteration method (engine/jiim.cpp): a *)
(* ring of points in the disk video, taken from either end.  The disk      *)
(* video's other users come and go before and after it.                    *)
(***************************************************************************)
EXTENDS DiskVideo

CONSTANTS Request,     \* the size init_queue is asked for,
          MinQueue,    \* the size it no longer tries
          PointsPut    \* the <<x, y>> that are put in

\* A point takes two cells of the store, eight bytes of it in the code.
CELLS == 2

\* What keeps the points: the ring has fewer blocks than the cache has entries, and no
\* point lies across two blocks.  In the code 128 blocks at most, and 2024 entries.
ASSUME QueueAssumption == /\ Request \in Nat /\ MinQueue \in Nat \ {0} /\ PointsPut \subseteq (0 .. 255) \X (0 .. 255)
                          /\ BLOCK_LEN % CELLS = 0
                          /\ Request * CELLS <= NEntries * BLOCK_LEN

VARIABLES s_list_front, s_list_back, s_list_size, s_l_size,
          taken      \* the point taken last

queueVars == <<s_list_front, s_list_back, s_list_size, s_l_size, taken>>
allVars   == <<vars, queueVars>>

NoPoint == [at |-> <<>>, value |-> -1]
Point(x, y) == [at |-> <<x, y>>, value |-> 0]

QueueSession(size) == [kind |-> "queue", rowSize |-> size * CELLS, colSize |-> 1, colors |-> 256,
                       header |-> 0, asked |-> {}]

\* The sizes tried, halved until one can be had.
Sizes == {n \in 1 .. Request : n > MinQueue /\ \E k \in 0 .. Request : n = Request \div 2^k}

SetList(front, back, size, now) ==
    /\ s_list_front' = front /\ s_list_back' = back /\ s_list_size' = size
    /\ s_l_size' = now

\* A Targa file is ended by its own user; the screen of a disk driver is left alone, the
\* potential of an image is given up.
init_queue ==
    /\ session.kind # "targa"
    /\ answer' = NoAnswer /\ taken' = NoPoint
    /\ \/ \E size \in Sizes : /\ size = Request \/ "open" \in Failures
                              /\ common_start_disk(QueueSession(size)) /\ session' # Closed
                              /\ SetList(0, 0, size, 0)
       \* Bound: no failure while a queue is in use, whose ends would stay as they are.
       \/ /\ session.kind # "queue"
          /\ common_start_disk(QueueSession(Request)) /\ session' = Closed
          /\ SetList(s_list_front, s_list_back, 0, s_l_size)

free_queue == /\ session.kind = "queue" /\ end_disk
              /\ SetList(0, 0, 0, 0) /\ taken' = NoPoint

Queueing == session.kind = "queue"

queue_empty == s_list_front = s_list_back

clear_queue == /\ Queueing
               /\ SetList(0, 0, s_list_size, 0) /\ taken' = NoPoint
               /\ UNCHANGED vars

Room == (s_list_front + 1) % s_list_size # s_list_back

push_float(x, y) ==
    /\ Queueing
    /\ IF Room
       THEN /\ to_mem_disk(CELLS * s_list_front, <<x, y>>)
            /\ SetList((s_list_front + 1) % s_list_size, s_list_back, s_list_size, s_l_size + 1)
       ELSE UNCHANGED <<s_list_front, s_list_back, s_list_size, s_l_size, cacheVars, store>>
    /\ taken' = NoPoint /\ answer' = NoAnswer
    /\ UNCHANGED <<session, s_cur_row, s_cur_row_base>>

\* Takes the point of a slot and moves the ends.
Take(slot, front, back) ==
    /\ from_mem_disk(CELLS * slot, CELLS)
    /\ taken' = Point(answer'.value[1], answer'.value[2])
    /\ SetList(front, back, s_list_size, s_l_size - 1)
    /\ UNCHANGED <<session, s_cur_row, s_cur_row_base>>

TakeNone == /\ queue_empty /\ taken' = NoPoint /\ answer' = NoAnswer
            /\ UNCHANGED <<session, store, cacheVars, s_cur_row, s_cur_row_base>>
            /\ UNCHANGED <<s_list_front, s_list_back, s_list_size, s_l_size>>

FrontSlot == s_list_front                                       \* mutant
Top == (IF s_list_front = 0 THEN s_list_size ELSE s_list_front) - 1

pop_float == /\ Queueing
             /\ IF queue_empty THEN TakeNone ELSE Take(Top, Top, s_list_back)

dequeue_float ==
    /\ Queueing
    /\ IF queue_empty THEN TakeNone
       ELSE Take(s_list_back, s_list_front, (s_list_back + 1) % s_list_size)

QInit == Init /\ s_list_front = 0 /\ s_list_back = 0 /\ s_list_size = 0 /\ s_l_size = 0
              /\ taken = NoPoint

Others == /\ session.kind # "queue"
          /\ Next /\ UNCHANGED queueVars

QueueStep == \/ init_queue \/ free_queue \/ clear_queue
             \/ \E p \in PointsPut : push_float(p[1], p[2])
             \/ pop_float \/ dequeue_float

QNext == Others \/ QueueStep

QSpec == QInit /\ [][QNext]_allVars

-----------------------------------------------------------------------------
Count == IF s_list_size = 0 THEN 0 ELSE (s_list_front - s_list_back) % s_list_size

Slot(i) == (s_list_back + i - 1) % s_list_size
Items == [i \in 1 .. Count |-> Point(Visible(CELLS * Slot(i)), Visible(CELLS * Slot(i) + 1))]

\* The ring implements the queue the inverse Julia methods expect: nothing that its cache
\* forgets or takes for clean is ever missed.
Queue == INSTANCE PointQueue WITH
            size  <- IF Queueing /\ s_dv_handle.stored_at # "NOWHERE" THEN s_list_size ELSE 0,
            items <- IF Queueing /\ s_dv_handle.stored_at # "NOWHERE" THEN Items ELSE <<>>,
            taken <- IF Queueing /\ s_dv_handle.stored_at # "NOWHERE" THEN taken ELSE NoPoint,
            PointsGiven <- {Point(p[1], p[2]) : p \in PointsPut}

ImplementsQueue == Queue!Spec

=============================================================================

------------------------------- MODULE DiskVideo -------------------------------
(***************************************************************************)
(* The disk video (ui/diskvid.cpp): pixels kept in blocks of a cache, in   *)
(* front of memory or a file reached through one buffer (misc/memory.cpp). *)
(* The screen of a disk driver, the potential of an image, a Targa file    *)
(* and the queue of the inverse Julia window live there, one at a time.    *)
(***************************************************************************)
EXTENDS Integers, Sequences, FiniteSets, FiniteSetsExt

CONSTANTS BLOCK_LEN, HASH_SIZE, WRITE_GAP,  \* as in the code
          NEntries,    \* entries of the cache
          PRESET,      \* entries start with offsets above this one, no block's
          Sessions,    \* the sessions that are started, see SessionType
          Colors,      \* the colours that are written
          FileByte,    \* what a Targa file holds where nobody has written
          Failures     \* steps of memory_alloc that may fail: "open", "reopen"

\* A session: the kind, pixels per row, rows, number of colours, length of the
\* header, and the <<col, row>> asked for.
SessionType(s) == /\ s.kind \in {"screen", "targa", "queue"}
                  /\ s.rowSize \in Nat \ {0} /\ s.colSize \in Nat \ {0}
                  /\ s.colors \in 2 .. 256 /\ s.header \in 0 .. BLOCK_LEN - 1
                  /\ s.kind # "targa" => s.header = 0
                  /\ s.asked \subseteq Nat \X Nat

ASSUME BlockAssumption == BLOCK_LEN \in Nat \ {0} /\ PRESET \in Nat /\ PRESET % BLOCK_LEN # 0
ASSUME HashAssumption  == HASH_SIZE \in Nat \ {0}
ASSUME CacheAssumption == NEntries \in Nat \ {0} /\ WRITE_GAP \in Nat \ {0}
ASSUME InputAssumption == /\ \A s \in Sessions : SessionType(s) /\ s.kind # "queue"
                          /\ Colors \subseteq 0 .. 255 /\ FileByte \in 0 .. 255
                          /\ Failures \subseteq {"open", "reopen"}

Closed   == [kind |-> "closed"]
NoAnswer == [at |-> <<>>, value |-> -1]
Entries  == 0 .. NEntries - 1

VARIABLES session,      \* Closed, or the session g_disk_flag tells of
          s_dv_handle,  \* [stored_at, blocks]: the handle and what is behind it
          mem,          \* [buf, offset, ptr]: s_mem_buf, s_mem_offset, s_mem_buf_ptr
          entry,        \* the cache
          s_hash_ptr,   \* the entries of each hash chain
          s_cache_lru, s_cur_cache, s_cur_offset, s_high_offset, s_seek_offset,
          s_cur_row, s_cur_row_base,
          answer        \* the pixel of the last call with the value read or written

store     == <<s_dv_handle, mem>>
cacheVars == <<entry, s_hash_ptr, s_cache_lru, s_cur_cache, s_cur_offset, s_high_offset, s_seek_offset>>
vars      == <<session, store, cacheVars, s_cur_row, s_cur_row_base, answer>>

block_offset(offset) == offset - (offset % BLOCK_LEN)
block_index(offset)  == offset % BLOCK_LEN
hash_index(offset)   == (offset \div BLOCK_LEN) % HASH_SIZE

\* A byte holds 2^shift pixels: the colours are squared up to 256.
get_pixel_shift(colors) == 3 - Min({j \in 0 .. 2 : 2^(2^j) >= colors} \cup {3})

ShiftOf(s)   == IF s.kind = "targa" THEN 0 ELSE get_pixel_shift(s.colors)
PerByte(s)   == 2^ShiftOf(s)
PixelBits(s) == 8 \div PerByte(s)

\* Pixel i of a byte, and the byte of the pixels from first on.
PixelOf(s, byte, i) == (byte \div 2^(8 - PixelBits(s) * (i + 1))) % 2^PixelBits(s)
Packed(s, pixel, first) ==
    LET value[k \in 0 .. PerByte(s)] == IF k = 0 THEN 0 ELSE value[k - 1] * 2^PixelBits(s) + pixel[first + k - 1]
    IN  value[PerByte(s)] % 256

\* A block is whole bytes (2048 bytes in the code), what is drawn in a session are its
\* colours (video.cpp masks them), and no block of a Targa file is above the preset entries,
\* 100 million in the code: one would be taken for never seen and not be read.
ASSUME SessionAssumption ==
    \A s \in Sessions : /\ BLOCK_LEN % PerByte(s) = 0
                        /\ s.kind # "targa" => Colors \subseteq 0 .. s.colors - 1
                        /\ s.kind = "targa" => s.rowSize * s.colSize <= PRESET

-----------------------------------------------------------------------------
\* The store behind the cache: m has the handle's blocks and the buffer.  Without
\* a place behind the handle nothing moves.

from_memory(m) == IF m.stored_at = "NOWHERE" THEN m ELSE [m EXCEPT !.blocks[m.offset] = m.buf]
to_memory(m)   == IF m.stored_at = "NOWHERE" THEN m ELSE [m EXCEPT !.buf = m.blocks[m.offset]]

mem_seek(m, at) ==
    LET a == at + session.header
        block == a \div BLOCK_LEN
        there == IF block = m.offset THEN m ELSE to_memory([from_memory(m) EXCEPT !.offset = block])
    IN  [there EXCEPT !.ptr = a % BLOCK_LEN]

NextBlock(m) == [to_memory([from_memory(m) EXCEPT !.offset = @ + 1]) EXCEPT !.ptr = 0]

BytesOfBlock == BLOCK_LEN \div PerByte(session)

\* The bytes of a block of the cache are read one after the other, the last of them from
\* the next block of the store when the buffer ends: the store after it, and the bytes.
ReadBlock(m) ==
    LET over == m.ptr + BytesOfBlock - BLOCK_LEN
        end  == IF over <= 0 THEN [m EXCEPT !.ptr = @ + BytesOfBlock] ELSE [NextBlock(m) EXCEPT !.ptr = over]
    IN  [m |-> end,
         bytes |-> [k \in 0 .. BytesOfBlock - 1 |-> IF m.ptr + k < BLOCK_LEN THEN m.buf[m.ptr + k]
                                                    ELSE end.buf[m.ptr + k - BLOCK_LEN]]]

\* The same for writing.
mem_putc(m, bytes) ==
    LET Put(n, first) == [n EXCEPT !.buf = [i \in DOMAIN @ |-> IF i - first \in DOMAIN bytes THEN bytes[i - first] ELSE @[i]],
                                   !.ptr = first + BytesOfBlock]
    IN  IF m.ptr + BytesOfBlock <= BLOCK_LEN THEN Put(m, m.ptr)
        ELSE Put(NextBlock(Put(m, m.ptr)), m.ptr - BLOCK_LEN)

WriteBlock(m, pixel) ==
    mem_putc(m, [k \in 0 .. BytesOfBlock - 1 |-> Packed(session, pixel, k * PerByte(session))])

-----------------------------------------------------------------------------
\* The cache: c has the fields of cacheVars and m.

Holders(c, offset) == {e \in c.hash[hash_index(offset)] : c.entry[e].offset = offset}

DirtyAt(c, offset) == \E e \in Holders(c, offset) : c.entry[e].dirty

\* The dirty blocks written with the one at s_cache_lru: those reached from it
\* over gaps shorter than WRITE_GAP.
Run(c) ==
    LET from  == c.entry[c.lru].offset
        dirty == {c.entry[e].offset : e \in {e \in Entries : DirtyAt(c, c.entry[e].offset)}}
        Linked(low, high) == \A a \in dirty : low <= a /\ a < high =>
                                \E b \in dirty : a < b /\ b <= a + WRITE_GAP * BLOCK_LEN
    IN  {b \in dirty : Linked(b, from) /\ Linked(from, b)}

\* Forces a seek before the next read.
SeekAgain(c) == [c EXCEPT !.seek = -1]

write_cache_lru(c) ==
    LET run == Run(c)
        EntryAt(offset) == CHOOSE e \in Holders(c, offset) : TRUE
        Write(m, offset) == WriteBlock(mem_seek(m, offset \div PerByte(session)), c.entry[EntryAt(offset)].pixel)
        length == (Max(run) - Min(run)) \div BLOCK_LEN + 1
        \* Upwards from the first block of the run.
        after[k \in 0 .. length] ==
            LET offset == Min(run) + (k - 1) * BLOCK_LEN
            IN  IF k = 0 THEN c.m ELSE IF offset \in run THEN Write(after[k - 1], offset) ELSE after[k - 1]
    IN  SeekAgain([c EXCEPT
            !.m = after[length],
            !.entry = [e \in Entries |-> [c.entry[e] EXCEPT !.dirty = @ /\ c.entry[e].offset \notin run]]])

\* The clock: the next entry not recently used; those passed over lose the mark.
After(hand, n) == (hand + n) % NEntries
Turned(c) ==
    LET n == Min({k \in 1 .. NEntries : ~c.entry[After(c.lru, k)].lru} \cup {NEntries + 1})
        passed == {After(c.lru, k) : k \in 1 .. n - 1}
    IN  [c EXCEPT !.lru = After(c.lru, n),
                  !.entry = [e \in Entries |-> [c.entry[e] EXCEPT !.lru = @ /\ e \notin passed]]]

Unpacked(bytes) == [i \in 0 .. BLOCK_LEN - 1 |-> PixelOf(session, bytes[i \div PerByte(session)], i % PerByte(session))]

AboveOrHighest(c, offset) == offset >= c.high                   \* mutant
NeverSeen(c, offset) == offset > c.high

\* The block at s_cache_lru becomes the one at offset: cleared above the highest
\* block so far, read from the store below it.
Loaded(c, offset) ==
    LET Set(pixel) == [c.entry EXCEPT ![c.lru] = [offset |-> offset, pixel |-> pixel, dirty |-> FALSE, lru |-> TRUE]]
    IN  IF NeverSeen(c, offset)
        THEN [c EXCEPT !.high = offset, !.entry = Set([i \in 0 .. BLOCK_LEN - 1 |-> 0])]
        ELSE LET m == IF offset = c.seek THEN c.m ELSE mem_seek(c.m, offset \div PerByte(session))
                 r == ReadBlock(m)
             IN  [c EXCEPT !.m = r.m, !.seek = offset + BLOCK_LEN, !.entry = Set(Unpacked(r.bytes))]

Evicted(c) == [c EXCEPT !.hash[hash_index(c.entry[c.lru].offset)] = @ \ {c.lru}]
Chained(c) == [c EXCEPT !.hash[hash_index(c.entry[c.lru].offset)] = @ \cup {c.lru}, !.cur = c.lru]

find_load_cache(c0, offset) ==
    LET c == [c0 EXCEPT !.curOffset = offset]
        t == Turned(c)
        w == IF t.entry[t.lru].dirty THEN write_cache_lru(t) ELSE t
    IN  IF Holders(c, offset) # {}
        THEN LET e == CHOOSE e \in Holders(c, offset) : TRUE IN [c EXCEPT !.cur = e, !.entry[e].lru = TRUE]
        ELSE Chained(Loaded(Evicted(w), offset))

Cache == [entry |-> entry, hash |-> s_hash_ptr, lru |-> s_cache_lru, cur |-> s_cur_cache,
          curOffset |-> s_cur_offset, high |-> s_high_offset, seek |-> s_seek_offset,
          m |-> [stored_at |-> s_dv_handle.stored_at, blocks |-> s_dv_handle.blocks,
                 buf |-> mem.buf, offset |-> mem.offset, ptr |-> mem.ptr]]

SetCache(c) == /\ entry' = c.entry /\ s_hash_ptr' = c.hash /\ s_cache_lru' = c.lru /\ s_cur_cache' = c.cur
               /\ s_cur_offset' = c.curOffset /\ s_high_offset' = c.high /\ s_seek_offset' = c.seek
               /\ s_dv_handle' = [s_dv_handle EXCEPT !.blocks = c.m.blocks]
               /\ mem' = [buf |-> c.m.buf, offset |-> c.m.offset, ptr |-> c.m.ptr]

\* The block of an offset is found once and used until another one is asked for.
Found(offset) == IF s_cur_offset = block_offset(offset) THEN Cache ELSE find_load_cache(Cache, block_offset(offset))

-----------------------------------------------------------------------------
\* Starting and ending a session.

Bytes(s) == (s.rowSize * s.colSize + PerByte(s) - 1) \div PerByte(s) + s.header
disk_video_memory_blocks(s) == (Bytes(s) + BLOCK_LEN - 1) \div BLOCK_LEN

Zeros == [i \in 0 .. BLOCK_LEN - 1 |-> 0]

\* Where memory_alloc places the store: in memory or, failing that, in a file, which
\* is alike from here.  A file is closed and opened again; should that fail a handle
\* is returned all the same, with nothing behind it.
Places == {"STORED"} \cup (IF "reopen" \in Failures THEN {"NOWHERE"} ELSE {})

\* The store is zeroed, but for a Targa file, which has its header and a picture.
\* A block that reaches over the end makes the file longer.
Stored(s) == [b \in 0 .. disk_video_memory_blocks(s) - (IF s.kind = "targa" THEN 0 ELSE 1) |->
                IF s.kind = "targa" THEN [i \in 0 .. BLOCK_LEN - 1 |-> IF b * BLOCK_LEN + i < Bytes(s) THEN FileByte ELSE 0]
                ELSE Zeros]

Preset(e) == PRESET + (e + 1) * BLOCK_LEN

NoEntries == [e \in Entries |-> [offset |-> Preset(e), pixel |-> Zeros, dirty |-> FALSE, lru |-> FALSE]]

PresetChains == [h \in 0 .. HASH_SIZE - 1 |-> {e \in Entries : hash_index(Preset(e)) = h}]

\* The entry and the base keep what they have in the code; they are set before use.
NoBlockYet == s_cur_offset' = -1 /\ s_cur_cache' = 0
RowStays == UNCHANGED <<s_cur_row, s_cur_row_base>>              \* mutant
NoRowYet == s_cur_row' = -1 /\ s_cur_row_base' = 0

\* A Targa file has been written before: every block of it is to be read.
EmptyCache(s) == /\ entry' = NoEntries
                 /\ s_hash_ptr' = PresetChains
                 /\ s_cache_lru' = 0 /\ s_seek_offset' = -1
                 /\ s_high_offset' = (IF s.kind = "targa" THEN PRESET ELSE -1)
                 /\ NoBlockYet /\ NoRowYet

NoHandle == [stored_at |-> "NOWHERE", blocks |-> <<>>]

common_start_disk(s) ==
    \/ \E place \in Places :
          /\ session' = s
          /\ s_dv_handle' = [stored_at |-> place, blocks |-> Stored(s)]
          \* The header alone is read into the buffer; FileByte stands for its bytes.
          /\ mem' = [buf |-> [i \in 0 .. BLOCK_LEN - 1 |-> IF i < s.header THEN FileByte ELSE 0],
                     offset |-> 0, ptr |-> 0]
          /\ EmptyCache(s)
    \/ /\ "open" \in Failures
       /\ session' = Closed /\ s_dv_handle' = NoHandle
       /\ mem' = [buf |-> <<>>, offset |-> 0, ptr |-> 0]
       /\ EmptyCache(s)

\* A Targa file is started and ended on its own; what starts over another session ends it.
Start(s) == /\ session = Closed \/ (s.kind # "targa" /\ session.kind # "targa")
            /\ common_start_disk(s) /\ answer' = NoAnswer

\* The dirty blocks of a Targa file are written, in the order of the entries.  What
\* is in the buffer then stays there.
FlushedFirst == IF entry[0].dirty THEN write_cache_lru([Cache EXCEPT !.lru = 0]) ELSE Cache    \* mutant
Flushed ==
    LET after[k \in 0 .. NEntries] ==
            IF k = 0 THEN Cache
            ELSE IF after[k - 1].entry[k - 1].dirty THEN write_cache_lru([after[k - 1] EXCEPT !.lru = k - 1])
            ELSE [after[k - 1] EXCEPT !.lru = k - 1]
    IN  after[NEntries]

\* The file, in the handle as it is closed.
FileWritten == IF session # Closed /\ session.kind = "targa" THEN Flushed.m.blocks ELSE <<>>

end_disk == /\ session' = Closed /\ answer' = NoAnswer
            /\ s_dv_handle' = NoHandle
            /\ mem' = [mem EXCEPT !.buf = <<>>]
            /\ entry' = NoEntries /\ s_hash_ptr' = PresetChains /\ s_cache_lru' = 0
            /\ UNCHANGED <<s_cur_cache, s_cur_offset, s_high_offset, s_seek_offset, s_cur_row, s_cur_row_base>>

-----------------------------------------------------------------------------
\* Reading and writing.

Row(row) == row = s_cur_row \/ (0 <= row /\ row < session.colSize)
Col(col) == 0 <= col /\ col < session.rowSize
RowBase(row) == IF row = s_cur_row THEN s_cur_row_base ELSE row * session.rowSize

NoteRow(row) == IF Row(row) THEN s_cur_row' = row /\ s_cur_row_base' = RowBase(row)
                ELSE UNCHANGED <<s_cur_row, s_cur_row_base>>

\* What a read off the picture returns; a write there does nothing.
Outside == [at |-> <<>>, value |-> 0]

Asked == session # Closed /\ session.kind # "queue"

disk_read_pixel(col, row) ==
    /\ Asked /\ NoteRow(row)
    /\ IF Row(row) /\ Col(col)
       THEN LET offset == RowBase(row) + col
            IN  \E c \in {Found(offset)} :
                   /\ SetCache(c)
                   /\ answer' = [at |-> <<col, row>>, value |-> c.entry[c.cur].pixel[block_index(offset)]]
       ELSE answer' = Outside /\ UNCHANGED <<cacheVars, store>>
    /\ UNCHANGED session

WritePixel(c, i, color) ==
    IF c.entry[c.cur].pixel[i] = color THEN c
    ELSE [c EXCEPT !.entry[c.cur].pixel[i] = color, !.entry[c.cur].dirty = TRUE]

disk_write_pixel(col, row, color) ==
    /\ Asked /\ NoteRow(row)
    /\ IF Row(row) /\ Col(col)
       THEN LET offset == RowBase(row) + col
            IN  /\ \E c \in {Found(offset)} : SetCache(WritePixel(c, block_index(offset), color))
                /\ answer' = [at |-> <<col, row>>, value |-> color]
       ELSE answer' = Outside /\ UNCHANGED <<cacheVars, store>>
    /\ UNCHANGED session

\* Values side by side in a block; those over its end are refused.
Fits(offset, size) == block_index(offset) + size <= BLOCK_LEN

to_mem_disk(offset, values) ==
    /\ Fits(offset, Len(values))
    /\ \E c \in {Found(offset)} :
          SetCache([c EXCEPT !.entry[c.cur].dirty = TRUE,
                             !.entry[c.cur].pixel = [i \in DOMAIN @ |->
                                LET k == i - block_index(offset) + 1
                                IN  IF k \in 1 .. Len(values) THEN values[k] ELSE @[i]]])

\* The block read is marked clean, whatever was written to it.
from_mem_disk(offset, size) ==
    /\ Fits(offset, size)
    /\ \E c \in {Found(offset)} :
          /\ SetCache([c EXCEPT !.entry[c.cur].dirty = FALSE])
          /\ answer' = [at |-> <<offset>>,
                         value |-> [k \in 1 .. size |-> c.entry[c.cur].pixel[block_index(offset) + k - 1]]]

Init == /\ session = Closed /\ s_dv_handle = NoHandle
        /\ mem = [buf |-> <<>>, offset |-> 0, ptr |-> 0]
        /\ entry = NoEntries /\ s_hash_ptr = PresetChains
        /\ s_cache_lru = 0 /\ s_cur_cache = 0 /\ s_cur_offset = 0 /\ s_high_offset = 0 /\ s_seek_offset = 0
        /\ s_cur_row = 0 /\ s_cur_row_base = 0
        /\ answer = NoAnswer

Draw == /\ Asked
        /\ \E p \in session.asked : \/ disk_read_pixel(p[1], p[2])
                                   \/ \E color \in Colors : disk_write_pixel(p[1], p[2], color)

Session == (\E s \in Sessions : Start(s)) \/ end_disk

Next == Session \/ Draw

Spec == Init /\ [][Next]_vars

-----------------------------------------------------------------------------
TypeOK == /\ session = Closed \/ SessionType(session)
          /\ DOMAIN s_hash_ptr = 0 .. HASH_SIZE - 1 /\ \A h \in DOMAIN s_hash_ptr : s_hash_ptr[h] \subseteq Entries
          /\ DOMAIN entry = Entries
          /\ \A e \in Entries : /\ entry[e].offset \in Nat
                              /\ entry[e].dirty \in BOOLEAN /\ entry[e].lru \in BOOLEAN
          /\ s_cache_lru \in Entries /\ s_cur_cache \in Entries
          /\ s_cur_offset = -1 \/ block_index(s_cur_offset) = 0
          /\ s_high_offset \in Nat \cup {-1} /\ s_seek_offset \in Nat \cup {-1}

\* Every entry is on the chain of its offset, and no block is in two entries: the walk
\* that takes an entry off its chain finds it, and a block has one content.
OneEntryPerBlock ==
    /\ \A e \in Entries, h \in 0 .. HASH_SIZE - 1 : e \in s_hash_ptr[h] <=> hash_index(entry[e].offset) = h
    /\ \A d, e \in Entries : entry[d].offset = entry[e].offset => d = e

\* The block used without a look at the cache is the one asked for, also after a new
\* session and after the entry was given to another block.
CurrentBlock == session # Closed /\ s_cur_offset # -1 => entry[s_cur_cache].offset = s_cur_offset

\* The row whose base is remembered has that base, also after a session with other rows.
RowBaseKept == session # Closed /\ s_cur_row # -1 => s_cur_row_base = s_cur_row * session.rowSize

\* A read that goes on without a seek goes on at the right byte.
SeekInPlace ==
    session # Closed /\ s_seek_offset # -1 /\ s_dv_handle.stored_at # "NOWHERE" =>
        mem.offset * BLOCK_LEN + mem.ptr = s_seek_offset \div PerByte(session) + session.header

\* What the cache remembers of itself is still so: the chains, the block last used and
\* the row last used, whatever session they were noted in (find_load_cache, init_cache).
CacheKept == OneEntryPerBlock /\ CurrentBlock /\ RowBaseKept

\* And so is the place in the store where the next block would be read
\* (find_load_cache, write_cache_lru).
CacheInv == TypeOK /\ CacheKept /\ SeekInPlace

\* What a pixel is: in its cache entry; 0 above the highest block so far; else in the
\* buffer or behind it.
Byte(m, a) == (IF a \div BLOCK_LEN = m.offset THEN m.buf ELSE m.blocks[a \div BLOCK_LEN])[a % BLOCK_LEN]
LookAt(s, c, offset) ==
    LET holders == Holders(c, block_offset(offset))
    IN  IF holders # {} THEN c.entry[CHOOSE e \in holders : TRUE].pixel[block_index(offset)]
        ELSE IF block_offset(offset) > c.high THEN 0
        ELSE PixelOf(s, Byte(c.m, offset \div PerByte(s) + s.header), offset % PerByte(s))
Visible(offset) == LookAt(session, Cache, offset)

Points(s) == {p \in s.asked : p[1] < s.rowSize /\ p[2] < s.colSize}

Given(s) == [p \in Points(s) |->
                IF s.kind = "targa" /\ p[2] * s.rowSize + p[1] + s.header >= BLOCK_LEN THEN FileByte ELSE 0]

\* The sessions that have a place for their pixels.
Kept == session # Closed /\ session.kind # "queue" /\ s_dv_handle.stored_at # "NOWHERE"

Pixels == INSTANCE PixelStore WITH
             session <- IF Kept THEN session ELSE Closed,
             pixels  <- IF Kept THEN [p \in Points(session) |-> Visible(p[2] * session.rowSize + p[1])] ELSE <<>>,
             answer  <- IF Kept THEN answer ELSE NoAnswer,
             Values  <- Colors \cup {0, FileByte},
             Contents <- LAMBDA s : {Given(s)}

ImplementsPixelStore == Pixels!Spec

\* The file of a Targa session that ends is the picture, but for what was left in the
\* buffer.
TargaWritten ==
    [][Kept /\ session.kind = "targa" /\ session' = Closed =>
          \A p \in Points(session) :
             LET a == p[2] * session.rowSize + p[1] + session.header
             IN  a \div BLOCK_LEN = Flushed.m.offset \/ FileWritten[a \div BLOCK_LEN][a % BLOCK_LEN] = Visible(a - session.header)]_vars

=============================================================================

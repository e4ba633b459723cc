------------------------------ MODULE GifFile ------------------------------
(***************************************************************************)
(* A picture on its way into a GIF file and back: encoder.cpp compresses   *)
(* the screen (and, for a 16-bit potential, a second plane that is kept in *)
(* the disk video) to codes of growing width, packs the codes into bytes   *)
(* and the bytes into packets; decoder.cpp unpacks them, rebuilds the      *)
(* table of strings one code behind the encoder and hands out the lines of *)
(* the picture, every one or every few of them, to a routine of            *)
(* gifview.cpp.  While a picture is saved, bars at its sides show how far  *)
(* the encoder has come; they are removed when the file is closed.         *)
(*                                                                         *)
(* Sizes are scaled: a byte has ByteBits bits, the longest code MaxBits,   *)
(* a packet PacketSize bytes.  What the hash table does is find a pair of  *)
(* a code and a colour, so it is a function here, with the one liberty it  *)
(* takes: the key of the pair (0, 0) is 0, which the probe takes for a     *)
(* place that can be used.                                                 *)
(***************************************************************************)
EXTENDS Integers, Sequences, SequencesExt, Bitwise, TLC

CONSTANTS XDots, YDots,   \* g_logical_screen
          Colors,         \* g_colors, a power of two
          MaxBits,        \* BITS_F: 12 in the code
          ByteBits,       \* bits of a byte: 8 in the code
          PacketSize,     \* 254 in the code
          BarEvery,       \* a status bar has a pixel for each so many: 250
          Pictures,       \* the screens that may be saved
          LowBits,        \* the second plane of a 16-bit potential
          Skips,          \* the values of g_skip_x_dots and g_skip_y_dots
          MaxSaves        \* bound: saves that are begun

Rows == 0..YDots - 1
Cols == 0..XDots - 1
PlaneColors == 0..Colors - 1

ASSUME GifAssumption ==
    /\ {XDots, YDots, MaxBits, ByteBits, PacketSize, BarEvery, MaxSaves} \subseteq Nat \ {0}
    /\ \E n \in 1..ByteBits : Colors = 2^n
    /\ Pictures \subseteq [Cols \X Rows -> PlaneColors]
    /\ LowBits \in [Cols \X Rows -> PlaneColors]
    /\ Skips \subseteq Nat

VARIABLES pc,      \* where the program is
          screen,  \* the picture, with the bars of a save over it
          wide,    \* s_save_16bit, and store_16bit when the file is loaded
          saves,   \* saves begun so far
          saved,   \* what the file being written is to hold, by plane
          intact,  \* no save has failed before it came to compress()
          whole,   \* the file holds all that was written to it
          at,      \* the pixel compress() reads next: row, plane and column
          enc,     \* the state of compress() and output()
          file,    \* the packets written
          bars,    \* s_num_saves, s_out_color_1s and 2s, the colours in use, s_last_color_bar
          skip,    \* g_skip_x_dots and g_skip_y_dots
          input,   \* what get_next_code() has not given out yet
          dec      \* the state of decoder() and of the routine it calls

vars == <<pc, screen, wide, saves, saved, intact, whole, at, enc, file, bars, skip, input, dec>>

-----------------------------------------------------------------------------
(* The codes.                                                              *)

bits_per_pixel == CHOOSE n \in 1..ByteBits : Colors = 2^n
start_bits == IF Colors = 2 THEN 3 ELSE bits_per_pixel + 1

clear_code == 2^(start_bits - 1)
eof_code == clear_code + 1
first_free == clear_code + 2
max_max_code == 2^MaxBits
max_code(n_bits) == 2^n_bits - 1

NoColor == -1     \* in_count = 0: no pixel has been read

(* flush_char() and char_out(): the bytes go out in packets. *)
flush_char(f) ==
    [f EXCEPT !.packets = IF f.accum = <<>> THEN @ ELSE Append(@, f.accum),
              !.accum = <<>>]

char_out(f, byte) ==
    LET g == [f EXCEPT !.accum = Append(@, byte)]
    IN  IF Len(g.accum) >= PacketSize THEN flush_char(g) ELSE g

Bytes(accumulator, n) ==
    [i \in 1..n |-> (accumulator \div 2^(ByteBits * (i - 1))) % 2^ByteBits]

(* The width of the next code, from the table as it is before the pair of  *)
(* this code is entered.                                                   *)
Widen(e) ==
    IF e.clear_flag
    THEN [e EXCEPT !.n_bits = start_bits, !.max_code = max_code(start_bits), !.clear_flag = FALSE]
    ELSE IF e.free_ent > e.max_code
    THEN [e EXCEPT !.n_bits = @ + 1,
                   !.max_code = IF e.n_bits + 1 = MaxBits THEN max_max_code
                                ELSE max_code(e.n_bits + 1)]
    ELSE e

(* output(): the code joins the bits that are waiting; whole bytes leave,  *)
(* and after the last code what is left of one.                            *)
output(e, code) ==
    LET bits == e.cur_bits + e.n_bits
        accumulator == (e.cur_accum % 2^e.cur_bits) + code * 2^e.cur_bits
        full == bits \div ByteBits
        rest == bits % ByteBits
        n == IF code = eof_code /\ rest > 0 THEN full + 1 ELSE full
        out == FoldLeft(char_out, e.out, Bytes(accumulator, n))
    IN  Widen([e EXCEPT !.cur_accum = accumulator \div 2^(ByteBits * n),
                        !.cur_bits = IF n > full THEN 0 ELSE rest,
                        !.out = IF code = eof_code THEN flush_char(out) ELSE out])

cl_block(e) ==
    output([e EXCEPT !.table = <<>>, !.free_ent = first_free, !.clear_flag = TRUE], clear_code)

NewEncoder ==
    [ent |-> NoColor, table |-> <<>>, free_ent |-> first_free, n_bits |-> start_bits,
     max_code |-> max_code(start_bits), clear_flag |-> FALSE, cur_accum |-> 0, cur_bits |-> 0,
     out |-> [packets |-> <<>>, accum |-> <<>>]]

-----------------------------------------------------------------------------
(* The bars.                                                               *)

InverseColors(b) == [b EXCEPT !.color1 = b.color2, !.color2 = b.color1]

(* The colours a new save draws its bars in; every other save swaps them. *)
SaveColors ==
    LET b == [bars EXCEPT !.num_saves = (@ + 1) % 2,
                          !.color1 = IF Colors > 2 THEN 2 ELSE 0,
                          !.color2 = IF Colors > 2 THEN 3 ELSE 1]
        c == IF b.num_saves = 0 THEN InverseColors(b) ELSE b
    IN  [c EXCEPT !.color1s = c.color1, !.color2s = c.color2]

NextColors(b, row) ==
    IF (row \div 4) % 2 = 0
    THEN [b EXCEPT !.color1 = (@ + 1) % Colors, !.color2 = (@ + 1) % Colors]
    ELSE b

BarColumns == {i \in Cols : BarEvery * i < XDots}

(* Drawing a row of the bars again removes it. *)
DrawBar(s, b, row) ==
    [p \in Cols \X Rows |->
        IF p[2] # row THEN s[p]
        ELSE LET left == IF p[1] \in BarColumns THEN s[p] ^^ b.color1 ELSE s[p]
             IN  IF XDots - 1 - p[1] \in BarColumns THEN left ^^ b.color2 ELSE left]

\* mutant
BarsButOneRemoved(s, b) ==
    LET step(acc, row) ==
            LET c == NextColors(acc.bars, row)
            IN  [screen |-> DrawBar(acc.screen, c, row), bars |-> c]
        first == [screen |-> s, bars |-> [b EXCEPT !.color1 = b.color1s, !.color2 = b.color2s]]
    IN  FoldLeft(step, first, [i \in 1..b.last_color_bar |-> i - 1]).screen

(* What save_image() does to the screen after the file has been closed. *)
BarsRemoved(s, b) ==
    LET step(acc, row) ==
            LET c == NextColors(acc.bars, row)
            IN  [screen |-> DrawBar(acc.screen, c, row), bars |-> c]
        first == [screen |-> s, bars |-> [b EXCEPT !.color1 = b.color1s, !.color2 = b.color2s]]
    IN  FoldLeft(step, first, [i \in 1..b.last_color_bar + 1 |-> i - 1]).screen

-----------------------------------------------------------------------------
(* Saving.                                                                 *)

reading == <<input, dec>>

(* encoder() gives up before compress(): the header cannot be written, or  *)
(* a picture of two planes is too wide for one.                            *)
SaveFails ==
    /\ pc \in {"menu", "saved"} /\ saves < MaxSaves
    /\ saves' = saves + 1
    /\ screen' = BarsRemoved(screen, bars)
    /\ intact' = FALSE
    /\ UNCHANGED <<pc, wide, saved, whole, at, enc, file, bars, skip, reading>>

StartSave ==
    /\ pc \in {"menu", "saved"} /\ saves < MaxSaves
    /\ saves' = saves + 1
    /\ saved' = [plane \in 0..1 |-> IF plane = 0 THEN screen ELSE LowBits]
    /\ at' = [row |-> 0, plane |-> 0, col |-> 0]
    /\ bars' = SaveColors
    /\ enc' = output(NewEncoder, clear_code)
    /\ pc' = "compress"
    /\ UNCHANGED <<screen, wide, intact, whole, file, skip, reading>>

Color == IF at.plane = 0 THEN screen[<<at.col, at.row>>] ELSE LowBits[<<at.col, at.row>>]

(* The hash table answers for the string that ends before this pixel. *)
Pair == <<enc.ent, Color>>
Known == Pair \in DOMAIN enc.table

Entered(e, forget) ==
    LET pairs == (DOMAIN e.table \ forget) \union {Pair}
    IN  [e EXCEPT !.table = [p \in pairs |-> IF p = Pair THEN e.free_ent ELSE e.table[p]],
                  !.free_ent = @ + 1]

FirstPixel ==
    /\ enc.ent = NoColor
    /\ enc' = [enc EXCEPT !.ent = Color]

LongerString ==
    /\ enc.ent # NoColor /\ Known
    /\ enc' = [enc EXCEPT !.ent = enc.table[Pair]]

NewString ==
    /\ enc.ent # NoColor /\ ~Known
    /\ LET e == [output(enc, enc.ent) EXCEPT !.ent = Color]
       IN  IF e.free_ent < max_max_code
           THEN \E forget \in SUBSET {<<0, 0>>} : enc' = Entered(e, forget)
           ELSE enc' = cl_block(e)

RowDone == at.col = XDots - 1

NextPixel ==
    IF ~RowDone THEN [at EXCEPT !.col = @ + 1]
    ELSE IF wide /\ at.plane = 0 THEN [at EXCEPT !.plane = 1, !.col = 0]
    ELSE [row |-> at.row + 1, plane |-> 0, col |-> 0]

(* A row of the second plane follows the row of the first. *)
ReadPixel ==
    /\ pc = "compress" /\ at.row < YDots
    /\ FirstPixel \/ LongerString \/ NewString
    /\ at' = NextPixel
    /\ IF RowDone /\ at.plane = 0
       THEN LET b == NextColors(bars, at.row)
            IN  /\ screen' = DrawBar(screen, b, at.row)
                /\ bars' = [b EXCEPT !.last_color_bar = at.row]
       ELSE UNCHANGED <<screen, bars>>
    /\ UNCHANGED <<pc, wide, saves, saved, intact, whole, file, skip, reading>>

(* The last codes, and the end of save_image().  Where the disk is full    *)
(* the file breaks off, and is kept if that is what the user wants.        *)
FinishSave ==
    /\ pc = "compress" /\ at.row = YDots
    /\ enc' = output(output(enc, enc.ent), eof_code)
    /\ \/ file' = enc'.out.packets /\ whole' = TRUE
       \/ /\ whole' = FALSE
          /\ \E n \in 0..Len(enc'.out.packets) - 1 : file' = SubSeq(enc'.out.packets, 1, n)
    /\ screen' = BarsRemoved(screen, bars)
    /\ pc' = "saved"
    /\ UNCHANGED <<wide, saves, saved, intact, at, bars, skip, reading>>

-----------------------------------------------------------------------------
(* get_next_code().                                                        *)

(* The next byte, from the next packet when this one is used up.  There is *)
(* none when the file is: the byte after the packets is the empty one that *)
(* ends them.                                                              *)
NextByte(r) ==
    IF r.avail # <<>> THEN [r EXCEPT !.b1 = Head(r.avail), !.avail = Tail(r.avail)]
    ELSE IF r.packets # <<>>
    THEN [r EXCEPT !.b1 = Head(Head(r.packets)), !.avail = Tail(Head(r.packets)),
                   !.packets = Tail(r.packets)]
    ELSE [r EXCEPT !.past_end = TRUE]

RECURSIVE Gather(_, _)
Gather(r, size) ==
    IF size <= r.bits_left THEN r
    ELSE LET s == NextByte(r)
         IN  Gather([s EXCEPT !.ret_code = @ + s.b1 * 2^r.bits_left,
                              !.bits_left = @ + ByteBits], size)

(* The reader after a code of size bits, the code in ret_code. *)
get_next_code(r, size) ==
    LET old == [r EXCEPT !.ret_code = IF r.bits_left = 0 THEN 0
                                      ELSE r.b1 \div 2^(ByteBits - r.bits_left)]
        g == Gather(old, size)
    IN  IF g.past_end THEN [r EXCEPT !.past_end = TRUE]
        ELSE [g EXCEPT !.ret_code = @ % 2^size, !.bits_left = @ - size]

-----------------------------------------------------------------------------
(* The routine that decoder() gives its lines to.                          *)

(* The two planes of a 16-bit potential come in turn. *)
pot_line(d) ==
    LET plane == d.row_count % 2
        row == d.row_count \div 2
    IN  [d EXCEPT !.loaded = [@ EXCEPT ![plane] = (row :> d.line) @@ @], !.row_count = @ + 1]

out_line(d) ==
    [d EXCEPT !.loaded = [@ EXCEPT ![0] = (d.row_count :> d.line) @@ @], !.row_count = @ + 1]

LineOut(d) == IF wide THEN pot_line(d) ELSE out_line(d)

LineWidth == XDots

\* mutant
LineEndKeepsSkip(d) ==
    IF d.left > 0 THEN d
    ELSE LET out == IF d.y_skip = 0 THEN [LineOut(d) EXCEPT !.y_skip = skip.y]
                    ELSE [d EXCEPT !.y_skip = @ - 1]
         IN  [out EXCEPT !.line = <<>>, !.left = LineWidth]

(* What follows when a line of the file is complete. *)
LineEnd(d) ==
    IF d.left > 0 THEN d
    ELSE LET out == IF d.y_skip = 0 THEN [LineOut(d) EXCEPT !.y_skip = skip.y]
                    ELSE [d EXCEPT !.y_skip = @ - 1]
         IN  [out EXCEPT !.line = <<>>, !.left = LineWidth, !.x_skip = 0]

(* decoder(): one colour comes off the stack. *)
Unstack(d, color) ==
    LET dot == IF d.x_skip = 0 THEN [d EXCEPT !.line = Append(@, color), !.x_skip = skip.x]
               ELSE [d EXCEPT !.x_skip = @ - 1]
    IN  LineEnd([dot EXCEPT !.left = @ - 1])

Unstacked(d) == FoldLeft(Unstack, [d EXCEPT !.stack = <<>>], d.stack)

(* The colours of a code that has n others before its last one. *)
RECURSIVE String(_, _, _)
String(d, code, n) ==
    IF n = 0 THEN <<code>> ELSE Append(String(d, d.prefix[code], n - 1), d.suffix[code])

(* A string that fits into the line goes there directly, any other on the  *)
(* stack, from its end, until the rest of it fits.                         *)
RECURSIVE Unchain(_, _)
Unchain(d, code) ==
    IF code < first_free THEN [d EXCEPT !.stack = <<code>> \o @, !.root = code]
    ELSE LET n == d.size[code]
             string == String(d, code, n)
         IN  IF n > 0 /\ d.left > n /\ skip.x = 0
             THEN LineEnd([d EXCEPT !.line = @ \o string, !.left = @ - (n + 1),
                                    !.root = string[1]])
             ELSE Unchain([d EXCEPT !.stack = <<d.suffix[code]>> \o @], d.prefix[code])

(* A code the table does not have yet: the string before it, and its first *)
(* colour once more.                                                       *)
OnceMore(d, c) == IF c < d.slot THEN d ELSE [d EXCEPT !.stack = <<d.out_value>>]

\* mutant
LateNewSlot(d, c) ==
    LET n == IF d.slot > d.top_slot THEN d
             ELSE [d EXCEPT !.size[d.slot] = d.size[d.old_code] + 1,
                            !.suffix[d.slot] = d.root, !.prefix[d.slot] = d.old_code,
                            !.out_value = d.root, !.slot = @ + 1, !.old_code = c]
    IN  IF n.slot > n.top_slot /\ n.curr_size < MaxBits
        THEN [n EXCEPT !.top_slot = 2 * @, !.curr_size = @ + 1] ELSE n

(* The table gains the string before this code and the first colour of     *)
(* this one.                                                               *)
NewSlot(d, c) ==
    LET n == IF d.slot >= d.top_slot THEN d
             ELSE [d EXCEPT !.size[d.slot] = d.size[d.old_code] + 1,
                            !.suffix[d.slot] = d.root, !.prefix[d.slot] = d.old_code,
                            !.out_value = d.root, !.slot = @ + 1, !.old_code = c]
    IN  IF n.slot >= n.top_slot /\ n.curr_size < MaxBits
        THEN [n EXCEPT !.top_slot = 2 * @, !.curr_size = @ + 1] ELSE n

-----------------------------------------------------------------------------
(* Loading.                                                                *)

NoStrings == [code \in 0..max_max_code - 1 |-> 0]

NewDecoder ==
    [curr_size |-> start_bits, top_slot |-> 2^start_bits, slot |-> first_free, old_code |-> 0,
     out_value |-> 0, root |-> 0, prefix |-> NoStrings, suffix |-> NoStrings, size |-> NoStrings,
     stack |-> <<>>, line |-> <<>>, left |-> LineWidth, x_skip |-> 0, y_skip |-> 0,
     bad_codes |-> 0, row_count |-> 0, loaded |-> [plane \in 0..1 |-> <<>>]]

NewReader(packets) ==
    [packets |-> packets, avail |-> <<>>, b1 |-> 0, bits_left |-> 0, ret_code |-> 0,
     past_end |-> FALSE]

writing == <<screen, wide, saves, saved, intact, whole, at, enc, file, bars, skip>>

(* gif_view() as far as the picture; the file is loaded, not what is left  *)
(* of the save in memory.                                                  *)
StartLoad ==
    /\ pc = "saved"
    /\ input' = NewReader(file)
    /\ dec' = NewDecoder
    /\ pc' = "decode"
    /\ UNCHANGED writing

Read == get_next_code(input, dec.curr_size)

(* decoder() returns; gif_view() looks for the packet that is empty. *)
FinishLoad(r) ==
    pc' = IF r.packets = <<>> /\ r.avail = <<>> THEN "loaded" ELSE "error"

(* The file is at its end before the code for the end has come.  Only      *)
(* after a clear code the failure is taken for a colour, once.             *)
FileError ==
    /\ pc = "decode"
    /\ Read.past_end
    /\ input' = Read /\ pc' = "error"
    /\ UNCHANGED <<dec, writing>>

ErrorTakenForColor ==
    /\ pc = "first"
    /\ Read.past_end
    /\ input' = Read /\ pc' = "decode"
    /\ dec' = Unstacked([dec EXCEPT !.old_code = -1, !.out_value = 2^ByteBits - 1,
                                    !.stack = <<2^ByteBits - 1>>])
    /\ UNCHANGED writing

EndingCode ==
    /\ pc \in {"decode", "first"}
    /\ ~Read.past_end /\ Read.ret_code = eof_code
    /\ input' = Read
    /\ FinishLoad(Read)
    /\ UNCHANGED <<dec, writing>>

ClearCode ==
    /\ pc \in {"decode", "first"}
    /\ ~Read.past_end /\ Read.ret_code = clear_code
    /\ input' = Read
    /\ dec' = [dec EXCEPT !.curr_size = start_bits, !.slot = first_free,
                          !.size[first_free] = 0, !.top_slot = 2^start_bits]
    /\ pc' = "first"
    /\ UNCHANGED writing

PixelCode(r) == ~r.past_end /\ r.ret_code \notin {eof_code, clear_code}

(* The code after a clear code is a colour. *)
FirstCode ==
    /\ pc = "first"
    /\ PixelCode(Read)
    /\ input' = Read
    /\ LET c == IF Read.ret_code >= dec.slot THEN 0 ELSE Read.ret_code
       IN  dec' = Unstacked([dec EXCEPT !.old_code = c, !.out_value = c, !.stack = <<c>>])
    /\ pc' = "decode"
    /\ UNCHANGED writing

OtherCode ==
    /\ pc = "decode"
    /\ PixelCode(Read)
    /\ input' = Read
    /\ LET bad == Read.ret_code > dec.slot
           c == IF bad THEN dec.slot ELSE Read.ret_code
           d == [OnceMore(dec, c) EXCEPT !.bad_codes = IF bad THEN @ + 1 ELSE @]
           chained == Unchain(d, IF c < dec.slot THEN c ELSE dec.old_code)
       IN  dec' = Unstacked(NewSlot(chained, c))
    /\ UNCHANGED <<pc, writing>>

-----------------------------------------------------------------------------

Init ==
    /\ pc = "menu"
    /\ screen \in Pictures
    /\ wide \in BOOLEAN
    /\ saves = 0
    /\ saved = [plane \in 0..1 |-> screen]
    /\ intact = TRUE
    /\ whole = TRUE
    /\ at = [row |-> 0, plane |-> 0, col |-> 0]
    /\ enc = NewEncoder
    /\ file = <<>>
    /\ bars = [num_saves |-> 0, color1 |-> 0, color2 |-> 0, color1s |-> 0, color2s |-> 0,
               last_color_bar |-> 0]
    /\ skip \in [x : Skips, y : Skips]
    /\ input = NewReader(<<>>)
    /\ dec = NewDecoder

(* The file has been loaded, or the program stays at its menu. *)
Rest ==
    /\ pc \in {"menu", "loaded", "error"}
    /\ UNCHANGED vars

Next ==
    \/ SaveFails \/ StartSave \/ ReadPixel \/ FinishSave
    \/ StartLoad \/ FileError \/ ErrorTakenForColor
    \/ EndingCode \/ ClearCode \/ FirstCode \/ OtherCode
    \/ Rest

Spec == Init /\ [][Next]_vars

-----------------------------------------------------------------------------
(* Properties.                                                             *)

Planes == IF wide THEN 0..1 ELSE {0}

(* The tables of both sides stay within their limits: a code never needs   *)
(* more than MaxBits bits, and less than a byte waits between two codes.   *)
TypeOK ==
    /\ pc \in {"menu", "compress", "saved", "decode", "first", "loaded", "error"}
    /\ screen \in [Cols \X Rows -> PlaneColors]
    /\ enc.n_bits \in start_bits..MaxBits
    /\ enc.free_ent \in first_free..max_max_code
    /\ enc.cur_bits \in 0..ByteBits - 1 /\ Len(enc.out.accum) < PacketSize
    /\ dec.curr_size \in start_bits..MaxBits
    /\ dec.slot \in first_free..dec.top_slot /\ dec.top_slot <= max_max_code
    /\ input.bits_left \in 0..ByteBits - 1
    /\ dec.stack = <<>> /\ dec.left \in 1..LineWidth

(* The string the encoder is in the middle of has a code that fits into    *)
(* the width it will be written with, whether it was entered a moment ago  *)
(* or the table has just been cleared (output, cl_block).                  *)
CodesFit == pc = "compress" => enc.ent < 2^enc.n_bits

(* The decoder is never given a code that it can neither find nor is about *)
(* to enter: it widens its codes and forgets its table in step with the    *)
(* encoder, which is one string ahead of it.                               *)
NoBadCodes == dec.bad_codes = 0

(* The code for the end is the last thing in the packets of a file that is *)
(* whole, and it is all there: the decoder neither runs out of them nor    *)
(* leaves any, so that gif_view finds the empty packet it looks for.       *)
LoadsToTheEnd == whole => pc # "error"

(* Encoder and decoder stay in step: both widen their codes, enter strings *)
(* and forget them at the same codes, from the first to the last one       *)
(* (output and cl_block, next_code and decoder).                           *)
CodecInv == TypeOK /\ CodesFit /\ NoBadCodes /\ LoadsToTheEnd

SampledLine(plane, row) ==
    [i \in 1..(XDots - 1) \div (skip.x + 1) + 1 |->
        saved[plane][<<(i - 1) * (skip.x + 1), row * (skip.y + 1)>>]]

Sampled(plane) == [row \in 0..(YDots - 1) \div (skip.y + 1) |-> SampledLine(plane, row)]

(* What is loaded is what was saved, both planes of it or every few pixels *)
(* of every few lines.  Left out is a potential that is reduced: lines are  *)
(* left out of it before its two planes are told apart.                    *)
PictureWhole ==
    pc = "loaded" /\ ~(wide /\ skip.y > 0) =>
        \A plane \in Planes : dec.loaded[plane] = Sampled(plane)

(* Of a file that breaks off, the lines that are shown are right, as long  *)
(* as the end of the file is not taken for a colour.                       *)
LinesRight ==
    ~(wide /\ skip.y > 0) /\ ~input.past_end =>
        \A plane \in Planes : \A row \in DOMAIN dec.loaded[plane] :
            dec.loaded[plane][row] = SampledLine(plane, row)

(* Nothing wrong is ever loaded: of a broken file a right part, of a whole  *)
(* one everything (compress, decoder, out_line_potential).                 *)
PictureLoaded == PictureWhole /\ LinesRight

(* The bars of a save are gone when it is over and have harmed nothing,    *)
(* whatever colours they were drawn in; a save that failed before it drew  *)
(* any removes those of the one before it, which puts them back.           *)
ScreenRestored == pc # "compress" /\ intact => screen = saved[0]
=============================================================================

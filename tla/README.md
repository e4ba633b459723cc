# Verification of Iterated Dynamics

Iterated Dynamics draws fractals interactively: an image is calculated pixel by
pixel while the user types, and nearly every key may interrupt it. An
interrupted image is saved, and later resumed, as a list of rectangles that are
still to be calculated. Symmetry halves the work, several algorithms guess what
they need not calculate, a pan or a raised iteration limit reuses what is on the
screen, a flag says that the image is complete, a timer saves it now and then
into a file, and large pictures live in a cache in front of a file. The modules
here model these parts, check them with TLC on small screens, and prove some of
them with TLAPS for screens, tables and caches of every size.

## 1. Inventory

| component | source (`src/`) | state it keeps | operations |
|---|---|---|---|
| work list | `libid/engine/work_list.cpp` | `g_work_list`, `g_num_work_list` | `add_work_list`, `combine_work_list`, `tidy_work_list`, removal of the front entry |
| symmetry | `libid/engine/calcfrac.cpp` 2150-2830 | `g_plot`, `g_i_stop_pt`, `g_stop_pt`, `g_work_symmetry` | `set_symmetry`, `x_sym_split`, `y_sym_split`, `sym_plot*` |
| standard engine | `libid/engine/StandardFractal.cpp` | `m_work_list_started`, `m_work_item_active`, the pass object, the pixel being iterated | `resume`, `iterate`, `suspend`, `run_current_work_item`, `finish_work_list` |
| one and two passes | `libid/engine/one_or_two_pass.cpp` | `m_row`, `m_col`, `m_resume_row`, `m_resume_col` | `OnePass::run`, `TwoPass::run`, `standard_calc` |
| guessing passes | `solid_guess.cpp`, `boundary_trace.cpp`, `tesseral.cpp`, `Diffusion.cpp` in `libid/engine` | blocks and saved lines; a trail; a stack of boxes; a counter | one `run` or `scan` each; all resume through the work list |
| per-pixel functions | `libid/engine/calcfrac.cpp` | `g_row`, `g_col`, `g_color`, `g_max_iterations`, the `m_standard_pixel_*` members | `calc_mandelbrot_type`, `standard_fractal_type`, `calculate_standard_pixel` |
| orbit overlay | `libid/engine/orbit.cpp` | the points drawn over the image and what they cover, `g_orbit_save_flag` | `reset_overlay`, `iterate_without_delay`, `scrub` |
| rendering loop | `libid/ui/standard_fractal.cpp`, `standard_orbit_plot.cpp` | the handlers it installs, the pending orbit | `standard_fractal`, `drive_orbit_plot` |
| keyboard | `libid/ui/KeyboardHandler.cpp`, the drivers in `win32/`, `x11/`, `wx/` | the handler stack, `s_calc_interrupted`, a buffer of one key | `calc_interrupted`, `dispatch_pending_keyboard_input`, `key_pressed`, `get_key`, `unget_key` |
| resume data | `libid/engine/resume.cpp` | `g_resume_data` | `alloc_resume`, `put_resume`, `start_resume`, `get_resume`, `end_resume` |
| menu loop | `libid/ui/big_while_loop.cpp`, `main_menu_switch.cpp` | `g_calc_status`, `g_quick_calc`, `g_init_batch` | automatic resume, redraw, zoom, more iterations, saves, batch mode |
| panning | `libid/ui/zoom.cpp` 630-1000 | none: it rewrites the resume data and the screen | `init_pan_or_recalc`, `check_pan`, `fix_work_list`, `restart_window` |
| timed save | `libid/io/save_timer.cpp`, `encoder.cpp` 130-330 | `g_save_ticks`, `g_finish_row`, `g_timed_save`, `g_resave_flag`, `g_started_resaves`, the files | `auto_save_needed`, `save_image` |
| GIF codec | `libid/io/encoder.cpp`, `decoder.cpp`, `gifview.cpp` | the hash table, the code width, the bits and packets; the string table | `compress`, `output`, `decoder`, `get_next_code`, `out_line`, `pot_line` |
| disk video | `libid/ui/diskvid.cpp`, `libid/misc/memory.cpp` | the cache with its hash chains, a buffer, the store behind it | `start_disk`, `disk_read_pixel`, `disk_write_pixel`, `from_mem_disk`, `to_mem_disk`, `end_disk` |
| inverse Julia queue | `libid/engine/jiim.cpp` | `s_list_front`, `s_list_back`, a ring in the disk video | `init_queue`, `push_float`, `pop_float`, `dequeue_float`, `clear_queue`, `free_queue` |
| other passes and engines | `soi.cpp`, `sticky_orbits.cpp`, `perturbation`, `libid/fractals/` | numbers, counters in the resume data | one function each |
| formula language | `libid/fractals/parser.cpp`, `interpreter.cpp`, `formula.cpp` | syntax trees, compiled formulas | parse, compile, run |
| tables | `libid/misc/memory.cpp`, `libid/ui/history.cpp` | handle table, ring of images | allocate/release, save/back/forward |
| slide show | `libid/ui/slideshw.cpp` | the key script, `g_slides`, `s_calc_wait`, `s_repeats` | next key, record |
| files, options, windows | `libid/io/`, `cmdfiles.cpp`, `win32/`, `wx/`, `x11/` | - | parsing, drawing |

How they interact. The menu loop calls `calc_fract`, which fills `g_resuming`
and `g_calc_status` and calls the rendering loop. That loop alternates
`StandardFractal::iterate`, the drawing of a pending orbit, and a look at the
keyboard; when a key waits it calls `suspend` and returns. `iterate` takes an
entry off the work list, lets `set_symmetry` cut it (which may put a piece back
on the list), and runs a pass. The pass calls a per-pixel function for each pixel;
the per-pixel function plots through `g_plot`, looks at the keyboard, and may
return in the middle of its work. When interrupted, the pass adds what is
left of its item to the list, and `suspend` copies the list to the resume data.
All of this is one thread; what makes it concurrent is that a key may arrive
between any two looks at the queue, and there are looks at four levels (pixel,
pass, orbit drawing, rendering loop), each of which draws its own conclusion.
The clock is a second source of keys: when a save is due, the driver answers a key
that nobody typed, through the same buffer, and the menu loop must take
it for what it is, save, and resume. What is plotted goes to the window or, with a disk
driver, to the disk video; a save reads it back, and so does a pass that
guesses.

What is hard in it, and hence what the properties are about:

- *order*: which of the four levels sees the key first; whether the clock or the user
  was first;
- *shared state*: one flag (`s_calc_interrupted`) that is set at one level and
  read at another, and resume coordinates that are read by a level that did not
  write them;
- *long sequences*: cut, interrupted, merged and cut again, a rectangle must
  still stand for exactly the pixels that lack their colour; a file name must go from one
  timed save to the next;
- *re-entry*: a pixel returns in the middle of an iteration and is entered again
  at the top of the function, guarded by half a dozen flags; a tesseral pass rebuilds a
  stack from the numbers of one box;
- *bounded tables* whose "full" answer is ignored by most callers;
- *two sides in step*: encoder and decoder build the same table one code apart; the cache and the
  store behind it show different bytes of one picture;
- *failure*: a full disk, a power failure between the removal of a file and the renaming of its
  successor, an allocation refused;
- *status*: `COMPLETED` must mean that nothing is missing, `RESUMABLE` that what
  is missing can be recovered, for a menu loop that looks at nothing else.

What makes each modelled component correct:

| component | properties |
|---|---|
| work list | nothing that was added is forgotten, no two entries overlap, sorted, fully merged |
| symmetry and engine | no pixel is lost between the screen, the item and the list; an interrupted pass saves what is left; a final pixel stays; there is room for what is saved; entries stay on the screen |
| status | `COMPLETED` means every pixel is done, `RESUMABLE` that the rest is saved; the engine implements the abstract image |
| guessing passes | nothing is left blank, nothing calculated is painted over, wrong guesses only where the method cannot know, nothing outside the window, the screen or a table is touched, the pass comes to its end |
| panning | every pixel stays shown or listed; clipped entries lie on the screen, apart, and no longer mirror onto pixels that are finished |
| pixel | returning to the loop does not change the iterations, nor does starting over as long as the limit is the user's; a pending request belongs to a pixel in progress; a drawn orbit is removed |
| timed save | no key lost or invented; one file for all timed saves of an image; no foreign file replaced; what was saved survives a crash; a batch's status is true |
| GIF codec | what is loaded is what was saved, whole, broken off or reduced; the bars of a save are gone afterwards |
| disk video and queue | it is a map from points to colours, through every eviction and failure; a Targa file holds what was drawn; the queue is a queue |
| all | when the user stops typing, the image completes |

The hazards, each at its line, are listed in `PROJECT.json`.

## 2. Modules

| module | models | extends |
|---|---|---|
| `WorkList` | the operators of the work list: merge, sort, add, pop | - |
| `WorkListSpec` | the list used on its own, with a history variable of what it owes | `WorkList` |
| `SetSymmetry` | the cutting of windows and the mirrored plots | `WorkList` |
| `StandardEngine` | engine, one and two passes, per-pixel functions, rendering loop, keyboard, resume data and the menu loop's use of them | `SetSymmetry` |
| `StandardPixel` | one row of pixels inside `calculate_standard_pixel`: iterations, returns to the loop, the orbit overlay | - |
| `PanWorkList` | panning: the saved list and the picture shifted, edges added, entries clipped, with the engine one item at a time | `WorkList` |
| `ImageCalc` | the abstract image the menu loop sees | - |
| `PassEngine` | what the guessing passes share: screen, items, keys, suspension | `WorkList` |
| `Tesseral`, `BoundaryTrace`, `Diffusion`, `SolidGuess` | the four guessing passes (three passes are in `SolidGuess`) | `PassEngine` |
| `GuessingPasses` | the four under one engine, and what the image may look like in the end | the four |
| `TimedSave` | the one-key buffer, the save timer, the menu loop around a save, batch mode, `save_image` and its files, power failures | - |
| `GifFile` | a picture compressed into a file and loaded again | - |
| `DiskVideo` | the disk video: cache, buffer, store, sessions | - |
| `MiimQueue` | the queue of the inverse Julia sets, in the disk video | `DiskVideo` |
| `PixelStore`, `PointQueue` | the abstract map of pixels, the abstract queue of points | - |
| `MCWorkList`, `MCStandardEngine`, `MCStandardPixel`, `MCPanWorkList`, `MCPasses`, `MCTimedSave`, `MCGifFile`, `MCDiskVideo` | constants for TLC | the above |
| `WorkList_proofs`, `WorkListSpec_proofs`, `SetSymmetry_proofs`, `StandardEngine_proofs`, `StandardPixel_proofs`, `PanWorkList_proofs`, `TimedSave_proofs`, `DiskVideo_proofs` | lemmas and theorems | the above |

How they compose. `StandardEngine` cuts windows with `SetSymmetry` and keeps what is left with
`WorkList`; `PanWorkList` uses both once more; the guessing passes put their
rest on the same `WorkList`. `MiimQueue` runs inside `DiskVideo`, with every other session of it
before and after. `GuessingPasses` runs whichever pass the image asks for in one engine.
`TimedSave` takes the calculation as a row of pixels that looks at the keyboard and
the file as a record of what it shows; `StandardEngine` has the first in detail, `GifFile` the second.

`StandardEngine` instantiates `ImageCalc` and takes the per-pixel functions as
black boxes: `PixelSlice`, `PixelOrbit` and `PixelDone` say how they can return.
`StandardPixel` opens the box, and takes the pass as a row of pixels instead.

Operators marked `mutant` are wrong versions of the definition that follows
them: the kind of mistake the named property of a run is there to notice. They are
not used by any specification.

### WorkList and WorkListSpec

An entry has the corners `start` and `stop`, the point `begin` where the
calculation goes on, a pass, and what symmetry has decided for each axis.
`CombineWorkList` is one turn of the loop in `tidy_work_list`: it merges the
first pair the two nested loops of `combine_work_list` meet and deletes the gone
entry. `Sorted` is the exchange sort as written, one comparison per turn, because the
sort is not stable and its result is what the engine takes entries from. Both
loops are functions of the number of turns, not recursive operators, so that
TLAPS can reason about them.

`WorkListSpec` adds rectangles of a pool in any order and takes the front one.
`owed` remembers every `<<x, y, pass>>` asked for; the history variable is what
makes "merging forgets nothing" a statement about states.

### SetSymmetry

The constant `Sym` is the symmetry after the tests of `set_symmetry` on the
fractal's parameters, `Axis` and `Between` are the pixel (and half pixel) the
axis falls on, which the code computes from the corners of the image. `AxisSplit` is
`x_sym_split` and `y_sym_split`, which are the same function of the two
coordinates; `SetSymmetry` is the switch on the symmetry for windows that use the
work list. `Targets` gives the pixels one `g_plot` call writes.
PI symmetry and the Newton-basin variants of the plot functions are left out.

### StandardEngine

One step is what happens between two looks at the keyboard or two pixels. `pc` names
the place: `menu` (the menu loop looks for a key), `start` (it is about to call
`calc_fract`), `turn` (top of the rendering loop), `calc` (in
`standard_calc`), `run_tail` (`standard_calc` has returned -1 to `run`),
`ui_poll` (the rendering loop's look at the keyboard).

| action | code |
|---|---|
| `PressKey` | the user; the driver's queue holds one key |
| `MenuKey` (`NoCommand`, `Redraw`, `Zoom`, `MoreIterations`) | what a key does to `g_calc_status` and `g_quick_calc` |
| `CalcFract` | `calc_fract` and the cleared screen of a new image, `StandardFractal::resume` |
| `StartItem` | `start_work_list` once, then an entry taken, cut by `set_symmetry`, and its pass created |
| `ContinueItem` | `iterate` on an item in progress |
| `SkipPixel`, `PixelDone`, `NextRow` | `standard_calc` at one pixel; quick calculation and second passes skip pixels |
| `PixelSlice`, `PixelOrbit` | `standard_fractal_type` returning from within a pixel |
| `MandelbrotInterrupted`, `PixelInterrupted` | the per-pixel functions when a key waits |
| `RunTail` | `run` after -1: the second look at the keyboard, and the entry it adds |
| `FirstPassDone`, `LastPassDone` | `run` after 0 and `finish_work_list` |
| `DriveOrbitPlot` | the orbit drawing and its delay |
| `UiPoll` | the rendering loop's look at the keyboard, and `suspend` |

`final` is the set of pixels that show the colour they end up with, and `blank` those
not plotted since the screen was cleared. Colours themselves are abstracted: a plot makes a
pixel final if it is the plotted pixel or one that has its colour by the true
symmetry (`SameColour`), and otherwise takes finality away. So a guess, or a
mirror image in the wrong place, shows up as a lost or spoiled pixel.

The constant `Yields` chooses the per-pixel function: `calc_mandelbrot_type`
(`FALSE`) looks at the keyboard before it calculates and never returns half-way;
`standard_fractal_type` (`TRUE`) looks while it iterates and after it has plotted,
and makes the pass return after a finished pixel.

### StandardPixel

`pixel` is the record of the `m_standard_pixel_` members (with `m_save_max_it`
and `g_color_iter`); `ClearedPixel` is `clear_standard_pixel`. `pc` is `loop` (top of
the rendering loop), `pixel` (inside `calculate_standard_pixel`), `tail` (it
returned -1 to `run`), `poll` (the loop's look at the keyboard) or `menu`.

| action | code |
|---|---|
| `CallPixel` | the entry of the function: a new pixel is set up, one in progress goes on; a star trail replaces the limit either way |
| `NextIteration`, `EndIteration` | the head and the end of the loop over the iterations |
| `PixelInterrupted`, `PixelSlice` | every `m_check_freq` iterations: a key, or a return without one |
| `LeaveOrbit` | the breaks after `orbit_calc` |
| `QueueOrbitPlot`, `QueueScrub` | `queue_overlay_orbit_plot`, `scrub_overlay_orbit` and the returns that follow |
| `PlotPixel(looks)` | from `g_real_color_iter` to the end; `looks` is that `g_keyboard_check_interval` has run out |
| `RunTail`, `UiPoll` | the polls of `OnePass::run` and of the loop, `suspend` |
| `DriveOrbitPlot`, `DriveScrub` | `drive_orbit_plot`, `scrub_orbit` and their completion |
| `Complete`, `Resume` | the end of the row, the menu loop's resume |

An orbit is the iteration at which it escapes (`Escape`); the periodicity check
and the finite attractors end it in the same way, at another iteration. The history
fields `iterated` and `derived` count the calls of `orbit_calc` and the updates
of the derivative; the history variable `limit_lost`, which no action reads, tells that `PixelInterrupted`
has set the limit to 0. A point of the overlay inverts the pixel it covers, so two
points at one place are told from none only by what was saved.

### PanWorkList

`calc_status`, `resume_data` and `axis` (where the axes are now) are the program's;
`shown` is the set of pixels that show their own colour.

| action | code |
|---|---|
| `Calculate` | one item of the resumed or new list: `set_symmetry` cuts it (`Cut`), then it is done (`FinishItem`), or a key stops it at a pixel and it goes back on the list (`StopItem`) |
| `Pan(d)` | the zoom box accepted at distance `d`: `init_pan_or_recalc` |
| `WaitForKey` | the menu, a completed image on the screen |

`InitPanOrRecalc` has the four outcomes of the function: a wrong alignment, tables full and
given up, tables full and cancelled, the pan (`PanBy`). `FixWorkList` is a
function of the number of turns of its loop; `FixEntry` is one turn. The axis of the
symmetry is a variable here, so `SetSymmetry` is instantiated with it
(`S == INSTANCE SetSymmetry WITH Axis <- axis`).

The engine is coarser than in `StandardEngine`, which has its steps: what an
item plots is given by sets (`Calculated`, `Copies`, `Plotted`) for the pass that `begin`
and the entry's symmetry ask for, and an item that is stopped leaves the entry the pass
would add. The faults of the returns half-way through a pixel are not repeated here.

### ImageCalc

The abstract specification: an image is begun, plotted, interrupted, resumed and
finished; plotting takes no colour away; `COMPLETED` is reached only when every
pixel shows its colour; and the calculation advances under weak fairness.
`StandardEngine` implements it with `status <- calc_status, shown <- final`.

### PassEngine and the guessing passes

The state they share is the screen (colours now), `picture` (what `calc_type` finds; every
picture of `Images` is tried), the pixels ever `calculated`, the work list, the item
`win`, and where the engine is: `loop` (an item is to be taken), `pass` (inside the pass), `yield` (a
pass that goes on has returned), `poll` (the loop's look at the keyboard), `menu`, `done`.
`stray` records that a pixel outside the screen was plotted or a place outside a table filled;
`hung` is a loop that cannot end.

| action | code |
|---|---|
| `TakeItem(mode)` | `run_current_work_item`: an entry is taken, the pass constructed |
| `ItemEnds(rest)`, `Back` | the return of the pass, with or without an entry put back |
| `Interrupt` | `calc_type` or the pass has noticed a key; it may also overlook it |
| `PollNothing`, `SuspendBetweenItems`, `Resume`, `Finished` | the loop's poll, `suspend`, the menu |

| pass | actions and code |
|---|---|
| `Tesseral` | `StartTesseral`, `Rebuild` (the constructor, dividing the window until the saved box is on top), `CalculateEdge`, `InterruptEdge`, `FillBox`, `SplitBox`, `InterruptBox` (`iterate` at one box), `SuspendTesseral` (the box on top packed into pass and row) |
| `BoundaryTrace` | `Scan`, `InterruptScan`, `EndBoundary` (the scan for a blank pixel), `TraceOn`, `TraceTurns`, `InterruptTrace` (the walk around a region), `FillOn`, `FillTurns`, `FillForced` (the walk again, filling to the left) |
| `Diffusion` | `StartDiffusion`, `DiffusePoint` (one tile of one counter), `InterruptDiffusion` (the counter in two halves), `EndDiffusion` |
| `SolidGuess` | `StartGuess`, `CalculateTop`, `CalculateBelow` (corners), `StartRow`, `SkipBlock`, `LoadBlock`, `CalculateQuarter`, `FinishBlock`, `FixGuess`, `NextBlock` (`guess_row` block by block), `EndRow`, `WriteRow` (the saved lines), `KeyWhileWriting` (its own look at the driver's queue), `InterruptTop`, `InterruptBelow`, `InterruptBlock`, `EndThreePass`, `StartFollowUp`, `StartOnePass`, `OneRow`, `InterruptOneRow` (the follow-up of three passes) |

Left out: plots with symmetry, a fill colour above 0, show-dot, inside or outside colour 0 and
fewer than 16 colours (which make the code itself avoid these passes or the colour 0),
`g_stop_pass`, windows of one row or column for the tesseral pass. Diffusion and tesseral
never have more than one window, because `check_pan` refuses to pan them.

### TimedSave

`pc` is the place in the program: `start` (`calc_fract`), `pixel`, `orbit` (the pixel itself), `key_pressed`, `get_key`,
`dispatch` (the keyboard handlers), `menu`, `save`, `encode`, `remove`, `rename`, and
`off` and `exited`. `poll` tells which of the three looks at the keyboard is under way.
A file is the image it shows, how much of it is done, and whether it was written to its end.
`handled` (keys that have come to their handler) and `timed_name` (the file of this image's
timed saves) are history.

| group | actions | code |
|---|---|---|
| world | `TypeKey`, `IntervalPasses`, `LibraryReadOnly`, `PowerFails`, `StartAgain` | the user, the clock, the disk, the machine; a batch may be started with a saved image to finish |
| calculation | `StartImage`, `CountDown`, `FinishPixel` | `calc_fract`, `calc_mandelbrot_type` and its keyboard interval |
| | `KeyPressed`, `TakeKey`, `ConsumeKey`, `UngetKey` | `calc_interrupted` with `key_pressed` (which asks `auto_save_needed`), `get_key`, the handlers, `unget_key`, and `suspend` after the third look |
| menu | `MenuTimedSave`, `MenuResumesAfterSave`, `MenuContinues`, `MenuKey`, `MenuBatch` | the branches of `big_while_loop` |
| `save_image` | `OpenFile`, `CannotOpenFile`, `Encode`, `EncodeFails`, `RemoveFile`, `RenameFile` | the choice of the name, the temporary `id.tmp`, the encoder, its errors, the exchange of the files |
| | `Rest` | a completed image waits for a key, or the program is not running |

Left out: a negative save interval (which leaves the program), other passes and engines than one
window in one pass, loading of files that are not whole, the change of the
name on the save screen. A library that has become read-only stays so. `stop_msg` throws away
the typed keys; that counts as their handling.

### GifFile

| action | code |
|---|---|
| `SaveFails`, `StartSave` | `save_image` and `encoder` before `compress`; a save that fails there draws no bars |
| `ReadPixel` | one turn of `compress`: a pixel, the string in hand, a code put out, the width, the table cleared when it is full, the status bars |
| `FinishSave` | the last codes, and the file closed; it may have lost its end |
| `StartLoad` | the file opened for a plane or two, with lines and columns to be skipped |
| `FileError`, `ErrorTakenForColor` | the end of the data within a code |
| `EndingCode`, `ClearCode`, `FirstCode`, `OtherCode` | the four kinds of codes in `decoder`, with the strings unwound and the lines handed to `out_line` or `pot_line` |

Sizes are scaled: bytes of 2 bits, codes of up to 4, packets of 4 bytes. The hash table is a
function from pairs of a code and a colour to codes, except for the key 0 that the
probe takes for a free place. The file can break off between packets. Headers, colour maps, extension blocks, dither,
sound and 3D are left out.

### DiskVideo, MiimQueue and their specifications

A session is a screen of a disk driver, a Targa file or the queue. `store` is what
`memory.cpp` keeps behind a handle and the buffer of one block in front of it;
`entry`, `s_hash_ptr` and the rest are the cache in front of that.

| action or operator | code |
|---|---|
| `Start(s)`, `common_start_disk`, `EmptyCache` | `start_disk`, `targa_start_disk`; `memory_alloc` may fail in two places (`Failures`) |
| `end_disk`, `Flushed`, `FileWritten` | `end_disk`: the dirty entries of a Targa session are written |
| `disk_read_pixel`, `disk_write_pixel` | the functions of that name, with the row and its base remembered |
| `find_load_cache`, `Turned`, `Loaded`, `Evicted`, `Chained` | the clock, the chains, the block read or cleared |
| `write_cache_lru`, `Run` | the run of dirty neighbours written together, and how it seeks |
| `mem_seek`, `mem_getc`, `mem_putc` | the buffer |
| `to_mem_disk`, `from_mem_disk` | the moves of bytes the queue uses |
| `init_queue`, `free_queue`, `clear_queue`, `push_float`, `pop_float`, `dequeue_float` | the functions of `jiim.cpp` |

`DiskVideo` implements `PixelStore` (a read answers what the last write to that point left, or
the content it began with) while a store is behind the handle, and `MiimQueue` implements
`PointQueue` (points leave at either end as they came, and one is refused only when the ring
is full). `from_mem_disk` clears a dirty flag that it should keep; that is harmless because a queue
is smaller than the real cache, which `QueueAssumption` says of the constants.

## 3. Runs

| run | asks | result |
|---|---|---|
| `work_list` | does any sequence of additions and removals keep the list sound, sorted and fully merged? | holds, 136 343 states |
| `mandel_two_pass` | two passes, symmetry about the origin: are interrupted items saved, entries on the screen, final pixels kept? | holds, 32 041 states |
| `standard_one_pass` | the yielding per-pixel function in one pass with a table of two entries: is there room, is what is saved enough, does the image complete? | holds, 41 214 states |
| `implements_image` | two passes, an axis that cuts the screen, quick calculations and raised limits: is what is called resumable resumable, and does the engine implement `ImageCalc`, fairness included? | holds, 2 994 states |
| `pixel` | does a pixel that returns at every moment, or is begun again, come out as undisturbed under the user's limit while that limit is not lost, and does its row complete? | holds, 10 016 states |
| `pan` | two passes, both axes, stopped anywhere and panned sideways (any way once completed): is every pixel still shown or listed, are entries clipped well, is nothing finished plotted over? | holds, 13 771 states |
| `passes` | tesseral, boundary trace, diffusion, solid guessing and three passes, interrupted anywhere: what does the finished image show? | holds, 738 297 states |
| `timed_save` | saves by the clock, by keys and by a batch, with a disk that fails and the power that fails: are keys, files and names safe, and does everything come to its end? | holds, 803 878 states |
| `gif` | a picture saved and loaded, whole, broken off or reduced: is it the same? | holds, 1 053 664 states |
| `disk_video` | screens, a Targa file and the queue one after another in a cache smaller than any: are they a map, a file and a queue? | holds, 84 895 states |
| `lost_item` | is `COMPLETED` always true to its word? | violated by the code |
| `guess_odd_width` | does solid guessing stay within its two saved lines? | violated by the code |

Some properties are conjunctions: `Tidy` (sorted and fully merged), `PixelInv`, `PanInv`, `CacheInv`,
`CodecInv`, `BatchInv`, `ScreenInv` (the types and what the indices and flags of the component
have to satisfy for the others to make sense), `KeysSafe`, `PictureLoaded`, `ComesToAnEnd`. Each part has a
comment of its own in its module. `CacheInv` is the types, `CacheKept` (chains, the block last used, the row
last used) and `SeekInPlace` (a read that goes on without a seek goes on at the right byte).

### Where code and documents disagree

Two disagreements have a run and are described under `findings` in `PROJECT.json`:

- *lost item*. A pass that yields returns -1 without adding its item, because no key
  waited; if a key has come when the rendering loop looks, `suspend` saves a
  list that lacks the item, and calls the image completed if the list is empty. (The key that the
  timer makes up does the same.)
- *odd width*. The last block of a row may begin beyond the window; its fill is cut at one end only and
  lands behind the buffer of two lines, against the assertion of `fill_d_stack`.

The others were met while modelling. The passing runs avoid them by their constants, or a property
excepts them by name, as said here:

- *stale resume point* (`one_or_two_pass.cpp` 74). After a finished pixel the pass returns without writing
  `m_resume_row` and `m_resume_col`. If the key comes just then, the saved entry uses the
  old ones, and with two passes rows are forgotten. In one pass too much is saved
  instead, and with symmetry about an axis in the lower half the stop row computed
  from the old row is below the screen: `OnScreen` fails with `ONE_PASS`, `Yields` and `X_AXIS`,
  which is why it is checked in `mandel_two_pass` only.
- *quick zoom* (`one_or_two_pass.cpp` 106). An interrupted quick calculation leaves `g_quick_calc` set; a zoom starts a
  new image on a cleared screen, no pixel of which has the inside colour, so all are
  skipped. No run has both commands.
- *lost limit* (`calcfrac.cpp` 1387-1388). A pixel that finds a key itself is cleared before the limit is restored from it, and
  the limit of the image becomes 0: every pixel plotted after it is resumed stops at iteration 1. `PlottedAsUndisturbed` compares with
  the limit the user set, and excepts the pixels plotted after such a key (`limit_lost`); without the exception TLC finds
  it violated. Star trails, which bring their own limit, are not excepted, though one that is suspended leaves the limit of
  the image at 16.
- *orbit left*. `scrub_overlay_orbit` looks at `g_show_orbit`, which the user may have
  switched off between the queueing and the drawing of a point. `OrbitScrubbed` excepts it.
- *derivative updated twice* (`calcfrac.cpp` 1411), when an iteration returned to have its orbit drawn, with the
  distance estimator; the field `derived` of `StandardPixel` counts it, `pixel` runs without.
- *pan up* (`zoom.cpp` 874). `fix_work_list` deletes entries whose first row is above the screen before it
  comes to the branch that would clip them, and the strip for the new edge may have been merged
  into such an entry. `pan` pans interrupted images sideways only, and the theorems are about those pans (`Sideways`).
- *origin-symmetric pan* (`zoom.cpp` 973-990). A sideways pan splits a second-pass window from its mirror images, whose
  even points nobody calculates. `pan` has the two axes instead, and two of the theorems assume `Sym # "ORIGIN"`.
- *tesseral edges* (`tesseral.cpp` 46-73, 365). Interrupted while it calculates the edges of its window, a pass is resumed as
  if it had them, and leaves blanks: `AllPainted` excepts it (`edges_left`).
- *overwritten fix* (`solid_guess.cpp` 543-569, 586-598). In the first guessing pass a corrected block may be overwritten
  by the line that was saved before: `CalculatedStays` is about the later passes.
- *three passes cut short* (`StandardFractal.cpp` 384). A key between `finish_work_list` and the follow-up leaves an image that
  is called completed after its guessing pass: `ExactInTheEnd` is about images that came to the follow-up.
- *Targa start* (`diskvid.cpp` 340). The buffer that a new Targa file begins with holds the header only, so the pixels beside it
  read as 0, not as what the file holds; and `end_disk` leaves the buffer unwritten. `TargaWritten` is about
  the blocks that reached the file.
- *unget on Windows* (`Win32BaseDriver.cpp` 162). `get_key` asks the timer again, so a fake key may be answered while the real
  one still waits, against the assertion at 140-141. `KeysSafe` holds for the drivers for X11 and wxWidgets.
- *bars of a failed save* (`encoder.cpp` 288). A save that fails before it has drawn status bars removes as many as the last one
  drew, and thereby puts them back: `ScreenRestored` excepts what follows such a save (`intact`).
- *browsed image* (`menu_handler.cpp` 185-190; `help4.src` 1188-1192). An image that is browsed to does not reset the flags of the timed
  saves, so the next save of the set may replace a file of another image: `NoForeignOverwrite` excepts it.
- *batch without a disk* (`big_while_loop.cpp` 829, `stop_msg.cpp` 83-88; `help4.src` 1518-1519). A batch whose file cannot be created tries for ever, under one name
  after the other: `ComesToAnEnd` excepts it.
- *prior save* (`help4.src` 1494-1501). The document promises that the prior save is kept until the next is complete. A power failure between the
  removal of the file and the renaming of `id.tmp` leaves the picture in `id.tmp` only, which
  the next save overwrites: `SavesSurvive` counts `id.tmp`, and excepts that save.
- *reduced potential* (`decoder.cpp` 286, 345; `encoder.cpp` 374-375). A potential that is reduced while loading has its two planes skipped as lines of
  one picture: `LinesRight` is about the lines that can be right.

### Bounds

One and two passes, pixels, panning. Screens are 2 to 7 pixels in each direction. That is enough for an axis
off centre in either direction, cuts of both axes and thus up to four
rectangles at once, odd and even rows and columns for two passes, and an
interruption in every pixel of each. `MaxKeys` (2 to 4) bounds the keys, `MaxStops` (3) and
`MaxPans` (2) the interruptions and pans; two
interruptions suffice for entries that were begun, merged and begun again.
`MaxSlices` bounds how often one pixel returns half-way. `MaxCalcWork` is 2 to 6
instead of 12, so that the table fills up: with three places in `pan` some pans are refused,
some splits at an edge find no room, and others find it. Two
pans reach entries that were clipped before. The row of `pixel` has one pixel that
escapes and one that does not, a limit of 4 and a look every second iteration, so that each
pixel can return for every reason, in every order, and be begun again after any of
three keys; two places suffice for points that cover each other or do not. The work-list run adds every
rectangle of a 3 by 3 screen, begun in three places, in two passes.

Guessing passes. Tesseral and boundary trace see every picture of two colours on 3 by 4 pixels, which has every
shape of a region that meets, touches or encloses another at that size; larger screens (6 by 5 to 20 by 13) have a diagonal, a disc, a column and
two kinds of dust, in one or two windows. 8 by 7 has two blocks of 4 in each direction, cut off at the edges, and 20 by 13 has more
than two, for what a block knows of the ones before. One key can
come anywhere (`MaxInterrupts`); a second one behaves like the first of a smaller window. `PackBits` 3 and `WordBits` 2 make the packed
numbers as narrow as the screens allow, and `RowsPerBlock` 8 has blocks of 4 and of 8.

Timed saves. Three rows make a timed save wait for a row, save, resume and become due again in the same image. Two keys, two
images and one fault, each at any moment, and any number of times at which the interval passes. Six names are more than two images
can use up unless a batch fails again and again, when no further save is begun (`NameLeft`, the bound on names).

GIF. 4 by 4 pixels of four colours give 16 pixels with every pair of colours once, two free pixels in three places, so that a string
may repeat, be cut by the clearing of the table (`MaxBits` 4 leaves 10 free codes), or be the one just being added. A picture may be saved twice, the second
time over the bars of the first.

Disk video. Blocks of 4 bytes, two entries and two chains: every third block evicts one, two blocks meet in a chain or do
not, and the gap of 2 between dirty blocks is met, missed and passed. The header of 1 byte puts a pixel across two blocks. The queue has room for 3 points of the 4 places.

Deadlock is checked in every run. Where the system rests, it does so by an
action of its own (`Rest`, `Finished`, `WaitForKey`), whose guard says when.

### Fairness

`FairSpec` of `StandardEngine` and `StandardPixel` has weak fairness of `Engine`, the disjunction of everything the program
does, and none of `PressKey`: the thread keeps running as
long as it has something to do, and the user need not type. `TimedSave` has weak fairness of `Program`: typing, the timer, faults and the restart
are not fair. `GuessingPasses` has weak fairness of `Next`, as the number of interruptions is bounded and
the only other thing its user does is to continue the image. No action is given
fairness of its own, so progress follows from the order the code imposes.

## 4. Proofs

What TLC finds for the small instances of section 3, TLAPS proves for every value of the constants that satisfies
the named assumptions of the modules (TLC evaluates those in every run). A hypothesis beyond them stands in the
theorem, as `ASSUME`.

| module | theorem | property | hypotheses |
|---|---|---|---|
| `WorkListSpec_proofs` | `AlwaysTypeOK`, `AlwaysNothingForgotten`, `AlwaysNoOverlap`, `AlwaysTidy` | `TypeOK`, `NothingForgotten`, `NoOverlap`, `Tidy` | |
| `StandardEngine_proofs` | `EngineTypeOK`, `EngineRoomForItem` | `TypeOK`, `RoomForItem` | |
| | `EngineOnScreen`, `EngineFinalStays`, `EngineInterruptSaves` | `OnScreen`, `FinalStays`, `InterruptSavesItem` | `~Yields` |
| | `EngineNoPixelLost`, `EngineResumable`, `EngineCompleted` | `NoPixelLost`, `ResumableMeansSaved`, `CompletedMeansDone` | `~Yields`, `NoQuickZoom` |
| | `EngineImplementsImage` | the steps of `ImplementsImage` | `~Yields`, `NoQuickZoom` |
| `StandardPixel_proofs` | `PixelAlwaysInv`, `PixelPlottedAsUndisturbed`, `PixelOrbitScrubbed` | `PixelInv`, `PlottedAsUndisturbed`, `OrbitScrubbed` | |
| `PanWorkList_proofs` | `PanListKept` | `PanInv` | `Sideways` |
| | `PanNothingLeftOut`, `PanFinishedStays` | `NothingLeftOut`, `FinishedStays` | `Sideways`, `Sym # "ORIGIN"` |
| `TimedSave_proofs` | `TimedSaveKeysSafe` | `KeysSafe` | `Platform # "win32"` |
| | `TimedSaveOneFile`, `TimedSaveBatch`, `TimedSaveSurvives` | `TimedSavesOneFile`, `BatchInv`, `SavesSurvive` | |
| | `TimedSaveNoForeign` | `NoForeignOverwrite` | `~Overwrite` |
| `DiskVideo_proofs` | `CacheAlwaysKept`, `CacheImplementsPixelStore`, `TargaFileWritten`, `RingImplementsPointQueue` | `CacheInv`, `ImplementsPixelStore`, `TargaWritten`, `ImplementsQueue` | |

### Work list

`WorkList_proofs` has the lemmas. The loops of `tidy_work_list` are inductions on the
number of turns. The library's induction theorems take an operator as a
parameter; `Turns` is the same principle for a *set* of turns, from the
well-foundedness of `<`, and `LoopExists` shows that a loop within a set has a
function of its turns. `CombinedByTurns` and `SortedByTurns` say where a loop ends from a set of lists
for each turn. `CombinedWithin`, `SortedWithin` and `TidyWithin` are the case of one set for all turns:
what each turn keeps, `tidy_work_list` keeps. The sets differ by turn for what a loop *achieves*:
a turn of the combining loop that merges makes the list shorter, so after as many turns as it had entries nothing is
left to merge (`CombinedSettles`); after the first n turns of the exchange sort every pair it has
compared is in order (`Compared`, `SortedOrders`). That sorting undoes no merge
(`SwapSettled`) gives `TidyIsTidy`. Its last part takes entries as rectangles, for the panning: `Tables(f, R)` are the lists of
windows in a frame f, pairwise apart and clear of a region R, and adding to one and tidying it give one again (`AddClear`, `TidyClear`).

`WorkListSpec_proofs` proves its four invariants for a table of any size and any pool of proper
rectangles. `Tidy` is what `TidyIsTidy` says of each addition, and taking the first entry keeps it. Neither
`NothingForgotten` nor `NoOverlap` is inductive: a merge of improper entries (stop before
start, or begun beyond the last column) may cover and owe anything. The invariant
`IInv` adds that every entry is `Proper`; `MergeKeeps` shows, for each of
the four ways two entries touch, that the merged entry is proper, covers no more
than the two and owes all they owed. `PoolAssumption` says the engine adds proper
entries only.

### Symmetry and engine

`SetSymmetry_proofs` has the types of windows, splits and plots. What
the engine needs of it is `SetSymmetryType`: a window and a list with a free place
give a window and a list with a free place. Each axis adds at most one entry, and only
if *two* places are free (`RoomToSplit`); `AddedLeavesRoom` turns the one into the other,
and `TidyWithin` says that tidying never adds. For the panning it also has that the pieces of a cut lie
apart within the window that was cut (`CutApart`), and that the pixels of a plot stay within it (`TargetsWithin`).

`StandardEngine_proofs` first proves `TypeOK` and `RoomForItem`
for every screen, symmetry, mode, table and bound. `RoomForItem`, a free
place while an item is in progress and not yet back on the list, is not inductive. It is
established when an item is taken, so the list must not be empty then; and once `RunTail` has
put the item back, no pass may be called for it again. The invariant `IInv` adds
`Control`: which places of the program can have an item in progress; that an item implies a
started list; that a started list without an item is not empty; that a pending orbit
belongs to an item; and that an interruption known at the top of the rendering loop comes with a pending
orbit, after which the loop looks at the keyboard and suspends.

Then it proves that nothing is lost, with the invariant `WInv` (`EngineWhole`). It holds where the per-pixel function
calculates a pixel in one piece, `~Yields`: for `standard_fractal_type` the claim is false, as the
run `lost_item` shows. Some results also need `NoQuickZoom`, that a zoom and a raised limit are not both among the
commands; with both, a quick calculation of a cleared screen skips every pixel (*quick zoom* in section 3). `WInv` says:

- `Covered`: every pixel is final, or `Open` in an entry of the list, or open ahead of the cursor in the item. `Open` is
  what an entry will still write: the points `Ahead` of its begin point in its pass, and all that they are the `Source` of by its symmetry;
- `FineList`: each entry is `Proper` (a window of the screen; if `set_symmetry` has decided about an axis, its middle is the axis; begun on
  a pixel its pass calculates itself, no guess), no pixel it will guess is final (`Guessed`), and the pixels that a quick calculation skips have final mirror images (`Closed`);
  two entries share no pixel, and of two first passes the one that was begun comes first (`Beside`);
- `ItemInv`: the same of the window, and that its stop rows and its plot function are those its symmetry asks for (`Ready`);
- `Flow` and `QuickInv`: what the place in the program says of status, item, keys and resume data, and what a quick calculation finds on the screen.

Each part is there because another one fails without it: `FinalStays` needs `Guessed`, which needs that
no other item has put a final pixel into a window whose first pass is not over, which needs that windows lie apart,
mirror images included. The proof follows an entry through its life: merged with another one
(`JoinedFine`, `AddFine`), cut along an axis (`CutFine`, `AxisSplitFine`, `SymmetryFine`), mirrored (`TargetsAre`), calculated
point by point, put back where it was interrupted, and given its second pass. `EngineImplementsImage` takes the steps from there: each is a step of
`ImageCalc` or a stutter. Its fairness is left to the run `implements_image`.

### Pixels

`StandardPixel_proofs` proves `PixelInv` (types, and that what is pending belongs to the pixel in progress), the action property
`PlottedAsUndisturbed` and `OrbitScrubbed` for every row, limit, period and escape iteration, and any
keys. The invariant says of a pixel in progress how the count of `orbit_calc`
calls and `g_color_iter` differ at each point of an iteration (`Underway`), that no call
so far has left the loop, and that inside the function the limit is the one of this pixel; of
a pixel that has left the loop, that its count is the undisturbed one under the limit it began with (`Finished`). That this is
the limit the user set is `LimitInv`: it is, until a pixel finds a key itself, or for a star trail it does not matter. The two
lemmas `OrbitCalcStep` and `LastIteration` are the two ways to leave. That it
holds for any keys rests on `Control`: nothing is pending while the function runs. The types split into
three groups of variables (`RestTypes`, `InputTypes`, `LoopTypes`), of which an action disturbs one or two;
the overlay needs that a set of places has a least one (`Least`), from the well-foundedness of `<`.

`OrbitScrubbed` rests on `OrbitInv`: of the values saved for a place the first is the plain one (`FirstPlain`), and every place
with a point over it has one (`Restores`). `scrub` restores from the last value saved to the first, so what remains is
the plain one, however the points cover each other (`ScrubbedPlain`).

### Panning

`PanWorkList_proofs` first proves `PanInv`: the list fits into its table, its entries are windows of the screen that begin in
themselves, and no two share a pixel. It assumes `Sideways`, that interrupted images are panned along their rows; completed ones
are panned any way. With a pan up the property is false (*pan up* in section 3). A window keeps within a frame,
and of the frame of a shifted list only the side it was shifted over lies outside the screen (`Reach`): that is what makes one clip of
`fix_work_list` enough. An entry that it cuts in two is put back to be looked at again; `Progress`, two for each entry
passed and one for each free place, grows with every turn, so the `3 * MaxCalcWork` turns of the model end the loop (`FixStates`). That the list is not empty when
an image can be resumed is part of the invariant. The operators of the symmetry occur in two instances,
`S` in the model and `SP` with its theorems; `SameSetSymmetry` and the lemmas around it say that they agree.

Then it proves that no pixel is left out and that no finished one is plotted over, unless the symmetry is about the origin
(for which the first is false: *origin-symmetric pan* in section 3). The invariant `CoverInv` says that of a resumable image
every pixel is shown, or `Open` in an entry; and of each entry that it `Fits`. `Open` is what the entry
will still give its colour: the pixels that are `Ahead` of where it begins, in the pass it is in, and all that have one of them for their `Source`.
An entry that `Fits` an image with axes `ax` is symmetric only about an axis (`Middle`), has not begun if its symmetry is undecided (`Untouched`), is in one of the two passes if there are two, and does not begin above its first row. Every operation has a lemma of the form *what was open still is, and fits*:

- merging: windows symmetric in a direction do not follow each other in it, since both would have the axis in their middle (`AppendedFits`), so that `AddFits` and `TidyFits` go through;
- `set_symmetry`: `CutStep` for one axis, `CutFits` for all; a plot writes exactly the pixels that come from the one it calculates (`TargetsSource`, `SourcePlotted`);
- the engine: an item that ends, or is stopped at any pixel of any pass, leaves an entry that has open what was not plotted (`SecondPassGives`, `StoppedFirstGives`,
`StoppedGives`; rows that remain between a row and its mirror image: `MirrorRows`), and writes only what it had open (`WrittenOpen`);
- the shift: even distances keep the parity of the points a first pass has left (`SameParity`; that is what the alignment in `check_pan` is for), and an entry fits the shifted axes (`ShiftedFits`); the edges cover what comes into view (`EdgesCover`);
- the clips: `Regains` says that the entry and its copy, if any, have open what the entry had on the screen and what `restart_window` has blanked (`LeftRegains`, `RightRegains`, `BeginRegains`).
The part of a window that goes on without its symmetry keeps the columns that were not mirror images, so each of its pixels comes from where it came from before (`NarrowedFits`).

`FixedCovers` is then the loop of `fix_work_list` again, with `FixCovers` added to `FixStates`, and `LeftInv` the inductive invariant, `PanInv` included.
`PendingOpen` ends it: what is open in an entry is pending by the independent definition that the property uses, which cuts
the window and asks what its plots reach.

### Timed save

`TimedSave_proofs` proves the five safety properties of the run for any number of rows, keys, images, faults and names.

- `TimedSaveKeysSafe`, on a driver other than the one for Windows: the one-key buffer is empty when a key is
put back, and the count of keys in the window, in the buffer, in hand and handled is the count of those
typed. It needs `SaveInv`: a key is in hand only while it is dispatched (`InHand`), a fake key in the buffer or in hand means that a timed save has
started (`FakeOfTimedSave`), and a timed save that has started is between the look at the keyboard and the menu (`StartedAt`), so
that the menu eats the right key and `stop_msg` throws none of the timer's away.
- `TimedSaveOneFile`: all timed saves of
an image go to one file, on any driver; its invariant `NameInv` ties `save_filename`
to the file of the last one for as long as `resave_flag` and `started_resaves` say so.
- `TimedSaveTypes` is the types with what status and flags are at each place (`FlowInv`). `NameLeft`, the bound on names, is a guard of
`OpenFile`, so that names run out for the model as they never do for the program. `TimedSaveBatch` adds what the file at work is (`WrittenAt`) and what a batch that has
saved has in the library (`BatchAt`).
- `TimedSaveNoForeign`: what `started_resaves` says of the file `save_filename` is true of it (`OwnFile`): it shows this image, and no more of it than there is.
- `TimedSaveSurvives`: the most that the files show of an image never becomes less, but in the cases the property names (`BestKept`).

### Disk video and queue

`DiskVideo_proofs` is about `MiimQueue`, which has all steps of `DiskVideo` besides the queue's own,
for any number of entries, size of a block, hash table, sessions, colours and points. The operations of the cache are functions of a record,
and each has a lemma about that record. Two predicates on it make up the invariant `IInv`:

- `Sound`: every entry is on the chain of its offset and on no other, and no two have the same offset
(`TurnedSound`, `WrittenSound`, `LoadedEntry`, `WriteSound`, and `FindLoad`: wherever the block was, one entry has it afterwards and is the current one).
It gives `CacheKept`. The invariant adds what keeps the offsets asked for
natural numbers (the row's base, the ends of the ring), since -1 stands for no block.
- `Held`, a cache in front of its store: an entry is preset or has a block of the session that is not above the
highest one; a clean entry has what the store has; the store is clear above the highest block; and the place in the store is where a read without
a seek goes on, which is `SeekInPlace`.

`Seen` is a pixel as an observer finds it, in its entry or else in the store. `SameSeen` says that two caches look the same, and the lemmas `WriteHeld`,
`LoadHeld`, `FindHeld` that writing a run of blocks, giving up an entry and loading another block change nothing that is seen.
Below them are the bytes: 1, 2, 4 or 8 pixels to a byte (`PackedPixel`: what is packed is unpacked as it was), a block of
the cache at its place in the store, at most across two blocks of it, where reading and writing change no other byte (`ReadStore`, `PutStore`). The header of a
Targa file is what makes blocks lie across two. So every step is a step of `PixelStore`. A flush at the end of a Targa
session goes through the entries, each write changing no pixel and dirtying no entry (`FlushClean`): at the
end the store has all that was seen, and the file has the store but for one block (`TargaFileWritten`).

The queue needs more, since `from_mem_disk` marks a block clean that was never written. `Ring` says why nothing is lost: the clock takes entries never used, in order,
as long as there is one, and when there is none, every block of the ring has an entry
(`AllBlocks`, by counting, with `QueueAssumption`). So no block of the ring ever leaves the cache. The rest is arithmetic of the ring
(`CountOf`, `SlotOf`) and one lemma for each operation (`PushRing`, `DequeueRing`, `PopRing`, ...).

### What the proofs changed

Attempts that failed were about the model as often as about the proof. The history variable `timed_name` of `TimedSave` was corrected, and with it
`NoForeignOverwrite`, which as first stated was false. The bound on names was not in the guards (`NameLeft`). `PixelStore` had no
answer for a read beside the picture. Two cases of `XYPlot` overlapped. An engine that yields, and a pan up,
gave no invariant because there is none: section 3 tells how pixels and rows get lost there.

### Only model-checked

- Liveness, with everything under fairness: `ImageCompletes`, `RowCompletes`, `ComesToAnEnd`, `Completes`, and the
fairness in `ImplementsImage`. Neither `ENABLED` nor the counting of a well-founded order over steps is in reach of the prover.
- Panning with symmetry about the origin. With that symmetry in `Pan.cfg`, TLC finds `FinishedStays` to hold, and `NothingLeftOut` in one pass;
in two passes it is false, as is `PanInv` when interrupted images are panned up (section 3).
- The engine where it yields. `TypeOK` and `RoomForItem` are proved; the other properties hold in the runs, within the limits of section 3.
- The guessing passes. `GuessingPasses` has a recursive operator for enclosed regions, and tlapm has no use of its SMT solver in
a module with one.
- The GIF codec. `GifFile` uses exclusive-or, whose library module is recursive; and that a decoder follows its encoder is an induction over data.

## 5. Not modelled

Of the modelled parts: PI symmetry and the Newton variants of the plots; the computation of the axis from the corners; perturbation, which
retries glitched pixels; show-dot pacing,
which only delays; the "compatibility path" on which modes that cannot yield draw
and scrub orbits at once; `submit_image_orbit_plot`, which has no caller in the engine; the first
iteration of Julia types, which starts one earlier; the break for a derivative that is
too big, which leaves the orbit as an escape does; versions of saved resume data before 2. What is left
out of the newer modules is said with each in section 2.

Not at all: synchronous orbits, orbits mode, perturbation, the engines in `libid/fractals`, the evolver (floating-point
arithmetic, one function after another); the formula language, parameter files and the command line, the help compiler
(translations of text, sequential and without bounds that a small instance could
stand for); windows, prompts and drawing.

## 6. Plan

Done: work list, symmetry, standard engine, pixels, panning, the guessing passes, timed saves, the GIF codec, the disk video and the queue of the
inverse Julia sets. What is left, in this order:

1. `SlideShow`, a second source of keys in `TimedSave`: a script that waits for the calculation and is interrupted by it.
2. `PanWorkList` composed with `StandardEngine`.
3. The local safety of the guessing passes (`ScreenInv`, `PaintsInWindow`, `CalculatedStays`) proved, pass by pass, with the
   enclosed regions in a module of their own that only the runs use.
4. `History`, the ring of images behind the history keys, and the table of memory handles, each with an
   abstract specification (a sequence, a set) it implements.
5. The perturbation queue, and the undo buffer of the palette editor.

------------------------------- MODULE TimedSave -------------------------------
(* Saving an image, by a key or by the clock: the one-key buffer of a driver   *)
(* (key_pressed, get_key, unget_key), the save timer (io/save_timer.cpp), the  *)
(* menu loop of ui/big_while_loop.cpp that saves and resumes, and save_image   *)
(* (io/encoder.cpp) with the files it leaves behind, at whatever point the     *)
(* program or the machine stops.                                               *)
(*                                                                             *)
(* The image is calculated row by row, in one pass over one window by          *)
(* calc_mandelbrot_type; StandardEngine has the calculation itself.  A file is *)
(* the image it shows, the number of its pixels that are done, and whether it  *)
(* was written to the end.                                                     *)
EXTENDS Naturals, Sequences, FiniteSets, FiniteSetsExt

CONSTANTS Rows, Cols,       \* the screen
          CheckInterval,    \* g_keyboard_check_interval: pixels between two looks at the keyboard
          Platform,         \* whose driver: "win32", "x11" or "wx"
          Batches,          \* is the program run with batch=yes?  the answers to try
          Overwrite,        \* g_overwrite_file
          Commands,         \* what the user types
          MaxKeys, MaxImages, MaxFaults, MaxNames   \* bounds

ASSUME ScreenAssumption == Rows \in Nat \ {0} /\ Cols \in Nat \ {0} /\ CheckInterval \in Nat
ASSUME PlatformAssumption == Platform \in {"win32", "x11", "wx"}
ASSUME BatchAssumption == Batches \subseteq BOOLEAN /\ Overwrite \in BOOLEAN
ASSUME CommandsAssumption ==
    Commands \subseteq {"orbit", "save", "redraw", "restore", "browse"}
ASSUME BoundsAssumption == /\ {MaxKeys, MaxFaults} \subseteq Nat
                           /\ {MaxImages, MaxNames} \subseteq Nat \ {0}

VARIABLES
    pc, poll,            \* where the program is; which look at the keyboard it is in
    calc_status,         \* g_calc_status
    image, done,         \* the image on the screen, the number of its pixels that are done
    check,               \* g_keyboard_check_interval
    ticking,             \* s_save_ticks # 0
    expired,             \* the interval has passed since s_save_start
    finish_row,          \* g_finish_row; NoRow is -1
    timed_save,          \* g_timed_save
    resave_flag, started_resaves,     \* g_resave_flag, g_started_resaves
    save_filename,       \* the number in g_save_filename
    init_batch,          \* g_init_batch
    key, key_buffer,     \* the key being handled; m_key_buffer
    typed,               \* the keys the window holds
    files, id_tmp,       \* the save library
    target, new_file,    \* of save_image
    writable,            \* can files be created in the save library?
    exit,                \* the status the program ends with
    images, keys_left, faults_left,   \* images begun, keys and faults still to come
    handled,             \* the keys that have come to their handler
    timed_name           \* the file of the timed saves of this image, 0 before there is one

calc_vars  == <<calc_status, image, done, check>>
timer_vars == <<ticking, expired, finish_row>>
flag_vars  == <<timed_save, resave_flag, started_resaves, save_filename, init_batch>>
key_vars   == <<key, key_buffer, typed, handled>>
file_vars  == <<files, id_tmp, target, new_file, writable>>
bound_vars == <<images, keys_left, faults_left>>
vars == <<pc, poll, calc_vars, timer_vars, flag_vars, key_vars, file_vars, exit,
          bound_vars, timed_name>>

Pixels == Rows * Cols
Names  == 1..MaxNames
NoFile == [image |-> 0, done |-> 0, whole |-> FALSE]
NoKey  == "none"
Fake   == "fake_autosave"        \* ID_KEY_FAKE_AUTOSAVE
NoRow  == Rows                   \* g_finish_row == -1
OfBefore == MaxNames + 1         \* the image was browsed to
Row    == done \div Cols         \* g_row, at the pixel to calculate

Exists(n) == files[n] # NoFile
Saved(f)  == f.whole /\ f.image = image /\ f.done = Pixels

-----------------------------------------------------------------------------
\* What the memory of a program that starts holds.
FreshMemory ==
    /\ poll' = "pixel" /\ check' = CheckInterval
    /\ ticking' = FALSE /\ expired' = FALSE /\ finish_row' = NoRow
    /\ timed_save' = "NONE" /\ resave_flag' = "NONE" /\ started_resaves' = FALSE
    /\ save_filename' = 1
    /\ key' = NoKey /\ key_buffer' = NoKey /\ typed' = <<>>
    /\ target' = 1 /\ new_file' = TRUE
    /\ exit' = 0
    /\ timed_name' = 0

Init == /\ pc = "start" /\ poll = "pixel"
        /\ calc_status = "PARAMS_CHANGED" /\ image = 0 /\ done = 0 /\ check = CheckInterval
        /\ ticking = FALSE /\ expired = FALSE /\ finish_row = NoRow
        /\ timed_save = "NONE" /\ resave_flag = "NONE" /\ started_resaves = FALSE
        /\ save_filename = 1
        /\ init_batch \in {IF batch THEN "NORMAL" ELSE "NONE" : batch \in Batches}
        /\ key = NoKey /\ key_buffer = NoKey /\ typed = <<>> /\ handled = 0
        /\ files = [n \in Names |-> NoFile] /\ id_tmp = NoFile
        /\ target = 1 /\ new_file = TRUE /\ writable = TRUE
        /\ exit = 0
        /\ images = 0 /\ keys_left = MaxKeys /\ faults_left = MaxFaults
        /\ timed_name = 0

-----------------------------------------------------------------------------
\* What happens around the program.

TypeKey == /\ keys_left > 0 /\ pc \notin {"off", "exited"}
           /\ keys_left' = keys_left - 1
           /\ \E k \in Commands : typed' = Append(typed, k)
           /\ UNCHANGED <<pc, poll, calc_vars, timer_vars, flag_vars, key, key_buffer, handled,
                          file_vars, exit, images, faults_left, timed_name>>

IntervalPasses == /\ ticking /\ ~expired
                  /\ expired' = TRUE
                  /\ UNCHANGED <<pc, poll, calc_vars, ticking, finish_row, flag_vars, key_vars,
                                 file_vars, exit, bound_vars, timed_name>>

\* From now on no file can be created in the save library.
LibraryReadOnly == /\ faults_left > 0 /\ writable /\ pc \notin {"off", "exited"}
                   /\ faults_left' = faults_left - 1
                   /\ writable' = FALSE
                   /\ UNCHANGED <<pc, poll, calc_vars, timer_vars, flag_vars, key_vars, files, id_tmp,
                                  target, new_file, exit, images, keys_left, timed_name>>

\* The power fails; the keys in the window and in the buffer are gone.
PowerFails == /\ faults_left > 0 /\ pc \notin {"off", "exited"}
              /\ faults_left' = faults_left - 1
              /\ pc' = "off"
              /\ handled' = MaxKeys - keys_left
              /\ typed' = <<>> /\ key' = NoKey /\ key_buffer' = NoKey
              /\ UNCHANGED <<poll, calc_vars, timer_vars, flag_vars, file_vars, exit, images,
                             keys_left, timed_name>>

ShowsImage(f) == /\ image' = f.image /\ done' = f.done
                 /\ calc_status' = IF f.done = Pixels THEN "COMPLETED" ELSE "RESUMABLE"

\* The program is started again: with the image of its parameters, or in batch
\* mode with a saved image to be finished.
StartAgain ==
    /\ pc = "off"
    /\ FreshMemory
    /\ \E batch \in Batches :
          \/ /\ images < MaxImages
             /\ image' = 0 /\ done' = 0 /\ calc_status' = "PARAMS_CHANGED"
             /\ init_batch' = IF batch THEN "NORMAL" ELSE "NONE"
             /\ pc' = "start"
          \/ /\ batch
             /\ \E n \in Names : files[n].whole /\ ShowsImage(files[n])
             /\ init_batch' = IF calc_status' = "RESUMABLE" THEN "FINISH_CALC" ELSE "NORMAL"
             /\ pc' = "menu"
    /\ UNCHANGED <<handled, files, id_tmp, writable, bound_vars>>

-----------------------------------------------------------------------------
\* save_timer.cpp: auto_save_needed, as state before and after.

\* The interval has passed: the row in progress is the one to finish.
RowToFinish == IF ticking /\ expired /\ finish_row = NoRow /\ calc_status = "IN_PROGRESS"
               THEN Row ELSE finish_row
SavesAtOnce == ticking /\ expired                                \* mutant
\* The row has been finished, or nothing is being calculated: save.
SaveStarts == /\ ticking /\ expired
              /\ IF finish_row = NoRow THEN calc_status # "IN_PROGRESS" ELSE finish_row # Row
TimedSaveNow == IF SaveStarts THEN "STARTED" ELSE timed_save
AutoSaveNeeded == ticking /\ TimedSaveNow = "STARTED"

LookAtTimer == /\ finish_row' = RowToFinish
               /\ timed_save' = TimedSaveNow

-----------------------------------------------------------------------------
\* calc_fract.

\* A new image drops the pending increment of the save name, by doing it.
NameForNewImage == IF resave_flag = "NONE" THEN save_filename ELSE save_filename + 1

StartImage ==
    /\ pc = "start"
    /\ ticking' = TRUE /\ expired' = FALSE /\ finish_row' = NoRow
    /\ IF calc_status = "RESUMABLE"
       THEN UNCHANGED <<image, done, images, save_filename, resave_flag, started_resaves, timed_name>>
       ELSE /\ images' = images + 1 /\ image' = images + 1 /\ done' = 0
            /\ save_filename' = NameForNewImage
            /\ resave_flag' = "NONE" /\ started_resaves' = FALSE
            /\ timed_name' = 0
    /\ calc_status' = "IN_PROGRESS"
    /\ check' = CheckInterval
    /\ pc' = "pixel"
    /\ UNCHANGED <<poll, timed_save, init_batch, key_vars, file_vars, exit, keys_left, faults_left>>

\* calc_mandelbrot_type looks at the keyboard now and then.
CountDown == /\ pc = "pixel"
             /\ IF check = 0 THEN check' = CheckInterval /\ pc' = "key_pressed"
                             ELSE check' = check - 1 /\ pc' = "orbit"
             /\ poll' = "pixel"
             /\ UNCHANGED <<calc_status, image, done, timer_vars, flag_vars, key_vars, file_vars,
                            exit, bound_vars, timed_name>>

LastPixel == done + 1 = Pixels
\* The pixel is calculated; after the last one the timer is stopped.
FinishPixel == /\ pc = "orbit"
               /\ done' = done + 1
               /\ IF LastPixel
                  THEN calc_status' = "COMPLETED" /\ ticking' = FALSE /\ pc' = "menu"
                  ELSE pc' = "pixel" /\ UNCHANGED <<calc_status, ticking>>
               /\ UNCHANGED <<poll, image, check, expired, finish_row, flag_vars, key_vars, file_vars,
                              exit, bound_vars, timed_name>>

-----------------------------------------------------------------------------
\* calc_interrupted: the keys that wait are dispatched, one by one, until one
\* interrupts.  An interrupted calculation asks three times: in the pixel, in
\* the pass and in the loop.

Peek(k) == key_buffer' = k /\ pc' = "get_key"

KeyPressed ==
    /\ pc = "key_pressed"
    /\ IF key_buffer # NoKey
       THEN pc' = "get_key" /\ UNCHANGED <<finish_row, timed_save, key_buffer, typed>>
       ELSE /\ LookAtTimer
            /\ \/ /\ AutoSaveNeeded
                  /\ Peek(Fake) /\ UNCHANGED typed
               \/ /\ ~AutoSaveNeeded /\ typed # <<>>
                  /\ Peek(Head(typed)) /\ typed' = Tail(typed)
               \/ /\ ~AutoSaveNeeded /\ typed = <<>>
                  /\ pc' = "orbit" /\ UNCHANGED <<key_buffer, typed>>
    /\ UNCHANGED <<poll, calc_vars, ticking, expired, resave_flag, started_resaves, save_filename,
                   init_batch, key, handled, file_vars, exit, bound_vars, timed_name>>

\* get_key, when key_pressed has filled the buffer.  Only the driver for Windows
\* looks at the timer once more.
GetKey == IF Platform = "win32"
          THEN /\ LookAtTimer
               /\ IF AutoSaveNeeded THEN key' = Fake /\ UNCHANGED key_buffer
                                    ELSE key' = key_buffer /\ key_buffer' = NoKey
          ELSE /\ key' = key_buffer /\ key_buffer' = NoKey
               /\ UNCHANGED <<finish_row, timed_save>>

TakeKey == /\ pc = "get_key"
           /\ GetKey
           /\ pc' = "dispatch"
           /\ UNCHANGED <<poll, calc_vars, ticking, expired, resave_flag, started_resaves,
                          save_filename, init_batch, typed, handled, file_vars, exit, bound_vars,
                          timed_name>>

\* OrbitToggleKeyboardHandler takes the key.
ConsumeKey == /\ pc = "dispatch" /\ key = "orbit"
              /\ handled' = handled + 1
              /\ key' = NoKey
              /\ pc' = "key_pressed"
              /\ UNCHANGED <<poll, calc_vars, timer_vars, flag_vars, key_buffer, typed, file_vars, exit,
                             bound_vars, timed_name>>

\* MainLoopKeyboardHandler puts it back and interrupts the calculation.
UngetKey ==
    /\ pc = "dispatch" /\ key # "orbit"
    /\ key_buffer' = key /\ key' = NoKey
    /\ IF poll = "loop"
       THEN /\ calc_status' = "RESUMABLE" /\ ticking' = FALSE
            /\ pc' = "menu" /\ UNCHANGED poll
       ELSE /\ poll' = IF poll = "pixel" THEN "pass" ELSE "loop"
            /\ pc' = "key_pressed" /\ UNCHANGED <<calc_status, ticking>>
    /\ UNCHANGED <<image, done, check, expired, finish_row, flag_vars, typed, handled, file_vars,
                   exit, bound_vars, timed_name>>

-----------------------------------------------------------------------------
\* The menu loop.

AnyKey  == key_buffer # NoKey \/ typed # <<>>
NextKey == IF key_buffer # NoKey THEN key_buffer ELSE Head(typed)
EatTyped ==                                                      \* mutant
    /\ typed' = IF typed # <<>> THEN Tail(typed) ELSE typed
    /\ key_buffer' = IF typed # <<>> THEN key_buffer ELSE NoKey
EatKey  == /\ key_buffer' = NoKey
           /\ typed' = IF key_buffer # NoKey THEN typed ELSE Tail(typed)

\* Woke up for a timed save: eat the key nobody typed, and save.
MenuTimedSave ==
    /\ pc = "menu" /\ timed_save = "STARTED"
    /\ AnyKey /\ EatKey
    /\ resave_flag' = "STARTED" /\ timed_save' = "FINAL"
    /\ pc' = "save"
    /\ UNCHANGED <<poll, calc_vars, timer_vars, started_resaves, save_filename, init_batch, key,
                   handled, file_vars, exit, bound_vars, timed_name>>

\* The save is done: ENTER, which resumes what is not completed.
MenuResumesAfterSave ==
    /\ pc = "menu" /\ timed_save = "FINAL"
    /\ timed_save' = "NONE" /\ resave_flag' = "FINAL"
    /\ pc' = IF calc_status = "COMPLETED" THEN "menu" ELSE "start"
    /\ UNCHANGED <<poll, calc_vars, timer_vars, started_resaves, save_filename, init_batch, key_vars,
                   file_vars, exit, bound_vars, timed_name>>

\* No visible reason to stop: continue.
MenuContinues ==
    /\ pc = "menu" /\ timed_save = "NONE" /\ init_batch = "NONE"
    /\ calc_status = "RESUMABLE" /\ ~AnyKey
    /\ pc' = "start"
    /\ UNCHANGED <<poll, calc_vars, timer_vars, flag_vars, key_vars, file_vars, exit, bound_vars,
                   timed_name>>

KeepsResaves == UNCHANGED <<save_filename, resave_flag, started_resaves>>   \* mutant
ForgetResaves == /\ save_filename' = NameForNewImage
                 /\ resave_flag' = "NONE" /\ started_resaves' = FALSE

\* What the key asks for.
RedrawImage  == calc_status' = "PARAMS_CHANGED" /\ pc' = "start"
                /\ UNCHANGED <<image, done, save_filename, resave_flag, started_resaves, timed_name>>
SaveByKey    == pc' = "save"
                /\ UNCHANGED <<calc_status, image, done, save_filename, resave_flag, started_resaves,
                               timed_name>>
RestoreImage == /\ ForgetResaves
                /\ \E n \in Names : files[n].whole /\ ShowsImage(files[n])
                /\ timed_name' = 0
                /\ pc' = "menu"
BrowseImage  == /\ \E n \in Names : files[n].whole /\ ShowsImage(files[n])
                /\ timed_name' = OfBefore
                /\ pc' = "menu"
                /\ UNCHANGED <<save_filename, resave_flag, started_resaves>>
NoCommand    == pc' = "menu"
                /\ UNCHANGED <<calc_status, image, done, save_filename, resave_flag, started_resaves,
                               timed_name>>
AnyWholeFile == \E n \in Names : files[n].whole

MenuKey ==
    /\ pc = "menu" /\ timed_save = "NONE" /\ init_batch = "NONE"
    /\ AnyKey /\ EatKey
    /\ handled' = handled + 1
    /\ LET k == NextKey
       IN  \/ k = "redraw" /\ images < MaxImages /\ RedrawImage
           \/ k = "save" /\ SaveByKey
           \/ k = "restore" /\ AnyWholeFile /\ RestoreImage
           \/ k = "browse" /\ AnyWholeFile /\ BrowseImage
           \/ /\ \/ k = "orbit" \/ k = Fake
                 \/ k = "redraw" /\ images = MaxImages
                 \/ k \in {"restore", "browse"} /\ ~AnyWholeFile
              /\ NoCommand
    /\ UNCHANGED <<poll, check, timer_vars, timed_save, init_batch, key, file_vars, exit, bound_vars>>

\* Batch mode: finish the image that was loaded, save, and leave.
BatchFinishes == /\ init_batch = "FINISH_CALC"
                 /\ init_batch' = "NORMAL"
                 /\ pc' = IF calc_status = "COMPLETED" THEN "menu" ELSE "start"
                 /\ UNCHANGED exit
BatchSaves == /\ init_batch \in {"NORMAL", "TRY_SAVE"}
              /\ init_batch' = IF init_batch = "NORMAL" THEN "SAVE" ELSE "INTERRUPTED_SAVE"
              /\ pc' = "save"
              /\ UNCHANGED exit
BatchEnds == /\ init_batch \in {"SAVE", "ERROR_NO_SAVE", "INTERRUPTED_SAVE"}
             /\ init_batch' = IF calc_status = "COMPLETED" THEN init_batch ELSE "ERROR_NO_SAVE"
             /\ exit' = IF init_batch' = "ERROR_NO_SAVE" THEN 2 ELSE 0
             /\ pc' = "exited"
MenuBatch == /\ pc = "menu" /\ timed_save = "NONE" /\ init_batch # "NONE"
             /\ BatchFinishes \/ BatchSaves \/ BatchEnds
             /\ UNCHANGED <<poll, calc_vars, timer_vars, timed_save, resave_flag, started_resaves,
                            save_filename, key_vars, file_vars, bound_vars, timed_name>>

-----------------------------------------------------------------------------
\* save_image.

\* The name search restarts until it finds a file that it may write: with
\* started_resaves the one of the last timed save, else the first unused one.
Step == IF resave_flag = "FINAL" THEN 2 ELSE 1
KeepsName == Overwrite \/ (resave_flag # "NONE" /\ started_resaves)
Unused == {n \in Names : n >= save_filename /\ (n - save_filename) % Step = 0 /\ ~Exists(n)}
Target == IF KeepsName THEN save_filename ELSE Min(Unused)
NameAfterSave == IF resave_flag = "STARTED" THEN Target ELSE Target + 1
\* Bound: the names of the library.
NameLeft == IF KeepsName THEN save_filename \in Names ELSE Unused # {}

\* stop_msg: a batch goes on with an error, else what was typed is thrown away.
StopMsg == IF init_batch \in {"NONE", "FINISH_CALC"}
           THEN /\ handled' = MaxKeys - keys_left
                /\ key_buffer' = NoKey /\ typed' = <<>>
                /\ UNCHANGED init_batch
           ELSE init_batch' = "TRY_SAVE" /\ UNCHANGED <<handled, key_buffer, typed>>

Written(whole) == [image |-> image, done |-> done, whole |-> whole]

ForgetsStarted == /\ started_resaves' = FALSE                    \* mutant
                  /\ resave_flag' = IF resave_flag = "FINAL" THEN "NONE" ELSE resave_flag
FlagsOfSave == /\ started_resaves' = (resave_flag = "STARTED")
               /\ resave_flag' = IF resave_flag = "FINAL" THEN "NONE" ELSE resave_flag

\* The file, or id.tmp for one that exists, is created.
OpenFile ==
    /\ pc = "save" /\ writable /\ NameLeft
    /\ target' = Target /\ save_filename' = NameAfterSave
    /\ new_file' = ~Exists(Target)
    /\ FlagsOfSave
    /\ timed_name' = IF resave_flag # "STARTED" THEN 0
                     ELSE IF timed_name = OfBefore /\ Exists(Target) THEN OfBefore ELSE Target
    /\ IF Exists(Target)
       THEN id_tmp' = Written(FALSE) /\ UNCHANGED files
       ELSE files' = [files EXCEPT ![Target] = Written(FALSE)] /\ UNCHANGED id_tmp
    /\ pc' = "encode"
    /\ UNCHANGED <<poll, calc_vars, timer_vars, timed_save, init_batch, key_vars, writable, exit,
                   bound_vars>>

\* The file cannot be written, or nothing can be created beside it.  The name is
\* kept below a bound, as a batch may try for ever.
CannotOpenFile ==
    /\ pc = "save" /\ ~writable /\ NameLeft
    /\ save_filename' = Min({NameAfterSave, MaxNames})
    /\ \/ Exists(Target) /\ UNCHANGED <<resave_flag, started_resaves>>
       \/ FlagsOfSave
    /\ StopMsg
    /\ pc' = "menu"
    /\ UNCHANGED <<poll, calc_vars, timer_vars, timed_save, key, files, id_tmp, target, new_file,
                   writable, exit, bound_vars, timed_name>>

\* encoder, to the end.
Encode == /\ pc = "encode"
          /\ IF new_file
             THEN files' = [files EXCEPT ![target] = Written(TRUE)] /\ UNCHANGED id_tmp
             ELSE id_tmp' = Written(TRUE) /\ UNCHANGED files
          /\ pc' = IF new_file THEN "menu" ELSE "remove"
          /\ UNCHANGED <<poll, calc_vars, timer_vars, flag_vars, key_vars, target, new_file, writable,
                         exit, bound_vars, timed_name>>

InterruptedGoesOn == init_batch                                  \* mutant
Interrupted == IF init_batch \in {"NONE", "FINISH_CALC"} THEN init_batch ELSE "ERROR_NO_SAVE"

RemoveTarget == files' = [files EXCEPT ![target] = NoFile] /\ UNCHANGED id_tmp   \* mutant
RemoveTmp == IF new_file THEN files' = [files EXCEPT ![target] = NoFile] /\ UNCHANGED id_tmp
                         ELSE id_tmp' = NoFile /\ UNCHANGED files

\* The disk is full.  The user keeps what there is or cancels the save; a batch
\* cancels.
EncodeFails ==
    /\ pc = "encode" /\ faults_left > 0
    /\ faults_left' = faults_left - 1
    /\ init_batch' = Interrupted
    /\ IF init_batch = Interrupted
       THEN handled' = MaxKeys - keys_left /\ key_buffer' = NoKey /\ typed' = <<>>
       ELSE UNCHANGED <<handled, key_buffer, typed>>
    /\ \/ RemoveTmp /\ pc' = "menu"
       \/ /\ init_batch = Interrupted
          /\ pc' = IF new_file THEN "menu" ELSE "remove"
          /\ UNCHANGED <<files, id_tmp>>
    /\ UNCHANGED <<poll, calc_vars, timer_vars, timed_save, resave_flag, started_resaves,
                   save_filename, key, target, new_file, writable, exit, images, keys_left, timed_name>>

RemoveFile == /\ pc = "remove"
              /\ files' = [files EXCEPT ![target] = NoFile]
              /\ pc' = "rename"
              /\ UNCHANGED <<poll, calc_vars, timer_vars, flag_vars, key_vars, id_tmp, target, new_file,
                             writable, exit, bound_vars, timed_name>>

RenameFile == /\ pc = "rename"
              /\ files' = [files EXCEPT ![target] = id_tmp]
              /\ id_tmp' = NoFile
              /\ timed_name' = IF timed_name = OfBefore /\ resave_flag = "STARTED" THEN target ELSE timed_name
              /\ pc' = "menu"
              /\ UNCHANGED <<poll, calc_vars, timer_vars, flag_vars, key_vars, target, new_file,
                             writable, exit, bound_vars>>

-----------------------------------------------------------------------------
World == TypeKey \/ IntervalPasses \/ LibraryReadOnly \/ PowerFails \/ StartAgain

Calculation == StartImage \/ CountDown \/ FinishPixel \/ KeyPressed \/ TakeKey
               \/ ConsumeKey \/ UngetKey
Menu == MenuTimedSave \/ MenuResumesAfterSave \/ MenuContinues \/ MenuKey \/ MenuBatch
SaveImage == OpenFile \/ CannotOpenFile \/ Encode \/ RemoveFile \/ RenameFile

Program == Calculation \/ Menu \/ SaveImage

\* A completed image waits for a key; the program is not running.
Rest == /\ \/ /\ pc = "menu" /\ timed_save = "NONE" /\ init_batch = "NONE"
              /\ calc_status = "COMPLETED" /\ ~AnyKey
           \/ pc \in {"off", "exited"}
        /\ UNCHANGED vars

Next == World \/ Program \/ EncodeFails \/ Rest

Spec == Init /\ [][Next]_vars

\* The program runs on; nobody need type, and nothing need fail.
FairSpec == Spec /\ WF_vars(Program)

-----------------------------------------------------------------------------
Key == Commands \cup {Fake}
File == [image : 0..MaxImages, done : 0..Pixels, whole : BOOLEAN]

Places == {"start", "pixel", "orbit", "key_pressed", "get_key", "dispatch", "menu", "save",
           "encode", "remove", "rename", "off", "exited"}
BatchModes == {"FINISH_CALC", "NONE", "NORMAL", "SAVE", "ERROR_NO_SAVE", "TRY_SAVE", "INTERRUPTED_SAVE"}

PlaceOK == pc \in Places /\ poll \in {"pixel", "pass", "loop"} /\ exit \in {0, 2}
CalcOK  == /\ calc_status \in {"PARAMS_CHANGED", "IN_PROGRESS", "RESUMABLE", "COMPLETED"}
           /\ image \in 0..MaxImages /\ done \in 0..Pixels /\ check \in 0..CheckInterval
TimerOK == ticking \in BOOLEAN /\ expired \in BOOLEAN /\ finish_row \in 0..NoRow
FlagOK  == /\ timed_save \in {"NONE", "STARTED", "FINAL"}
           /\ resave_flag \in {"NONE", "STARTED", "FINAL"} /\ started_resaves \in BOOLEAN
           /\ save_filename \in 1..MaxNames + 1 /\ init_batch \in BatchModes
KeyOK   == /\ key \in Key \cup {NoKey} /\ key_buffer \in Key \cup {NoKey}
           /\ typed \in Seq(Commands) /\ handled \in Nat
FileOK  == /\ files \in [Names -> File] /\ id_tmp \in File
           /\ target \in Names /\ new_file \in BOOLEAN /\ writable \in BOOLEAN
BoundOK == /\ images \in 0..MaxImages /\ keys_left \in 0..MaxKeys /\ faults_left \in 0..MaxFaults
           /\ timed_name \in Names \cup {0, OfBefore}

TypeOK == PlaceOK /\ CalcOK /\ TimerOK /\ FlagOK /\ KeyOK /\ FileOK /\ BoundOK

-----------------------------------------------------------------------------
\* The buffer of a driver holds one key.  Whoever puts a key back has taken it
\* out before, as the assertion of unget_key (win32/Win32BaseDriver.cpp) says.
UngetRoom == pc = "dispatch" /\ key # "orbit" => key_buffer = NoKey

\* No key is lost and none is handled twice, whenever the timer asks for a save:
\* what was typed is in the window, in the buffer or in hand, or has come to its
\* handler (stop_msg and a power failure throw keys away; that counts).  In
\* particular the key the menu loop eats before a timed save is nobody's.
Held(k) == IF k \in Commands THEN 1 ELSE 0
KeysKept == handled + Held(key) + Held(key_buffer) + Len(typed) = MaxKeys - keys_left

\* The key of the timer and the keys of the user go through one buffer without a collision
\* and without a loss (key_pressed, get_key and unget_key of the drivers).
KeysSafe == UngetRoom /\ KeysKept

\* The same file is overwritten by each timed save of an image, and by the save
\* that completes the set.
TimedSavesOneFile ==
    [][pc = "save" /\ pc' = "encode" /\ resave_flag # "NONE" /\ timed_name \in Names
         => target' = timed_name]_vars

\* A file is replaced that is not of an earlier state of the image: it is of another
\* image, of this run of the program or of one before.
NotBefore(f) == f.image # image \/ f.done > done
ForeignOverwrite == pc = "save" /\ pc' = "encode" /\ ~new_file' /\ NotBefore(files[target'])

\* Without overwrite=yes neither a timed save nor a save by a key replaces such a
\* file, but for an image that was browsed to: look() and unstack_file leave the
\* flags of the timed saves of the image before.
NoForeignOverwrite == [][ForeignOverwrite => timed_name = OfBefore]_vars

\* The best save of image i that was written to the end, by its pixels.
WholeSaves(i) == {f \in {files[n] : n \in Names} \cup {id_tmp} : f.whole /\ f.image = i}
Best(i) == Max({f.done : f \in WholeSaves(i)} \cup {0})

\* What has been saved stays saved, if the power fails at whatever moment: the
\* file or id.tmp holds at least as much of the image.  There are three ways to
\* lose it: the user replaces the file by a partial one, the file is not of an
\* earlier state of the image (see above when), or a later save overwrites the
\* id.tmp that a power failure has left.
SavesSurvive ==
    [][\/ \A i \in 1..MaxImages : Best(i)' >= Best(i)
       \/ pc = "remove" /\ (~id_tmp.whole \/ NotBefore(files[target]))
       \/ pc = "save" /\ id_tmp # NoFile]_vars

\* A batch that ends with status 0 leaves its image behind, completed.
ExitMeansSaved == pc = "exited" /\ exit = 0 => \E n \in Names : Saved(files[n])

\* The status of a batch can be trusted, and whatever fails on the way to it the names of
\* files stay within the library (save_image counts them up, a failed batch again and
\* again) and nothing but a save of an image is in it.
BatchInv == TypeOK /\ ExitMeansSaved

\* However often the timer asks for a save, the image is completed: every timed
\* save is followed by the resumption, which makes progress before the next;
\* one that fails, too, but in a batch that cannot create its file.
ImageFinishes == <>(\/ calc_status = "COMPLETED" \/ pc \in {"off", "exited"}
                    \/ init_batch # "NONE" /\ ~writable)

\* A batch ends, if its file can be created.
BatchEndsAtLast == init_batch # "NONE" ~> pc \in {"off", "exited"} \/ ~writable

\* Neither an image nor a batch goes on for ever, whatever the timer asks for and whichever
\* save fails (save_timer.cpp puts a key into the buffer again and again).
ComesToAnEnd == ImageFinishes /\ BatchEndsAtLast

=============================================================================

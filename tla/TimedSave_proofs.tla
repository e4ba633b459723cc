---------------------------- MODULE TimedSave_proofs ----------------------------
(***************************************************************************)
(* For every screen, every number of keys, images, faults and names, in a  *)
(* batch or not: on the drivers whose get_key leaves the timer alone a     *)
(* timed save finds room for its key and no key is lost to it; the timed   *)
(* saves of an image go to one file; a batch's status is true; no foreign  *)
(* file is replaced, and what was saved survives.                          *)
(***************************************************************************)
EXTENDS TimedSave, TLAPS, WellFoundedInduction

\* The keys, as far as counting them goes.
Keys == /\ typed \in Seq(Commands)
        /\ key \in Key \cup {NoKey} /\ key_buffer \in Key \cup {NoKey}
        /\ keys_left \in Nat /\ handled \in Nat

\* A key is in hand only between get_key and its handler, and while it is the
\* buffer is empty.
InHand == /\ pc # "dispatch" => key = NoKey
          /\ pc = "dispatch" => key_buffer = NoKey

\* What the window and the buffer held is gone with the power.
OffEmpty == pc = "off" => typed = <<>> /\ key_buffer = NoKey

\* A timed save has started if and only if its key is under way to the menu loop.
FakeOfTimedSave ==
    pc # "off" => (timed_save = "STARTED" <=> key = Fake \/ key_buffer = Fake)

\* A timed save that has started is noticed before anything else happens.
StartedAt == timed_save = "STARTED" => pc \in {"key_pressed", "get_key", "dispatch", "menu", "off"}

KeyInv == Keys /\ InHand /\ OffEmpty /\ FakeOfTimedSave /\ KeysKept

SaveInv == KeyInv /\ StartedAt

\* Where save_image is at work on a file.
Writing == {"encode", "remove", "rename"}

\* While files can be created, the timed saves of the image have the name that
\* the next one takes.
\* A timed save that is being written has the name of its set.
NameInv == /\ writable /\ timed_name \in Names =>
                 resave_flag # "NONE" /\ started_resaves /\ save_filename = timed_name
           /\ pc \in Writing /\ resave_flag = "STARTED" => started_resaves /\ save_filename = target

-----------------------------------------------------------------------------
\* The key of the timed save is none of the commands, nor is the absence of a key.
LEMMA KindsOfKeys ==
    /\ Fake \notin Commands /\ NoKey \notin Commands /\ Fake # NoKey
    /\ MaxKeys \in Nat
BY CommandsAssumption, BoundsAssumption DEF Fake, NoKey

\* A step that leaves the keys alone.
LEMMA KeysUndisturbed ==
    ASSUME KeyInv, UNCHANGED key_vars, keys_left' = keys_left, timed_save' = timed_save,
           \/ pc' = pc
           \/ pc \notin {"dispatch", "off"} /\ pc' \notin {"dispatch", "off"}
    PROVE  KeyInv'
BY DEF KeyInv, Keys, InHand, OffEmpty, FakeOfTimedSave, KeysKept, key_vars, Held

\* What stop_msg, called when no key is in hand, does to the keys.
LEMMA StopMsgKeys ==
    ASSUME KeyInv, StopMsg, pc \notin {"dispatch", "off"}, pc' \notin {"dispatch", "off"},
           timed_save' = timed_save, timed_save # "STARTED", keys_left' = keys_left, key' = key
    PROVE  KeyInv'
<1>1. key = NoKey /\ Held(key) = 0 /\ Held(NoKey) = 0
  BY KindsOfKeys DEF KeyInv, InHand, Held
<1>2. key_buffer # Fake
  BY DEF KeyInv, FakeOfTimedSave
<1>3. CASE init_batch \in {"NONE", "FINISH_CALC"}
  <2>1. handled' = MaxKeys - keys_left /\ key_buffer' = NoKey /\ typed' = <<>>
    BY <1>3 DEF StopMsg
  <2>2. handled' \in Nat
    BY <1>1, <2>1 DEF KeyInv, KeysKept, Keys, Held
  <2>3. Len(typed') = 0 /\ typed' \in Seq(Commands)
    BY <2>1
  <2> QED BY <1>1, <2>1, <2>2, <2>3, KindsOfKeys
          DEF KeyInv, Keys, InHand, OffEmpty, FakeOfTimedSave, KeysKept, Held
<1>4. CASE init_batch \notin {"NONE", "FINISH_CALC"}
  <2>1. UNCHANGED key_vars
    BY <1>4 DEF StopMsg, key_vars
  <2> QED BY <2>1, KeysUndisturbed
<1> QED BY <1>3, <1>4

-----------------------------------------------------------------------------

\* The window and the timer: key_pressed fills an empty buffer, get_key takes
\* what is there.
LEMMA KeyPressedStep == ASSUME KeyInv, KeyPressed PROVE KeyInv'
<1>1. key = NoKey /\ key' = NoKey /\ Held(NoKey) = 0 /\ Held(Fake) = 0 /\ handled' = handled
      /\ keys_left' = keys_left
  BY KindsOfKeys DEF KeyInv, InHand, KeyPressed, Held, bound_vars
<1>2. pc = "key_pressed" /\ pc' \in {"get_key", "orbit"}
  BY DEF KeyPressed, Peek
<1>3. CASE key_buffer # NoKey
  <2>1. UNCHANGED key_vars /\ timed_save' = timed_save
    BY <1>3 DEF KeyPressed, key_vars
  <2> QED BY <2>1, <1>1, <1>2, KeysUndisturbed
<1>4. CASE key_buffer = NoKey
  <2>1. timed_save # "STARTED"
    BY <1>1, <1>2, <1>4, KindsOfKeys DEF KeyInv, FakeOfTimedSave
  <2>2. timed_save' = TimedSaveNow
    BY <1>4 DEF KeyPressed, LookAtTimer
  <2>3. timed_save' = "STARTED" <=> AutoSaveNeeded
    BY <2>1, <2>2 DEF AutoSaveNeeded, TimedSaveNow, SaveStarts
  <2>4. CASE AutoSaveNeeded
    <3>1. key_buffer' = Fake /\ typed' = typed
      BY <1>4, <2>4 DEF KeyPressed, Peek
    <3> QED BY <1>1, <1>2, <1>4, <2>3, <2>4, <3>1, KindsOfKeys
            DEF KeyInv, Keys, Key, InHand, OffEmpty, FakeOfTimedSave, KeysKept
  <2>5. CASE ~AutoSaveNeeded /\ typed # <<>>
    <3>1. key_buffer' = Head(typed) /\ typed' = Tail(typed)
      BY <1>4, <2>5 DEF KeyPressed, Peek
    <3>2. Head(typed) \in Commands /\ Tail(typed) \in Seq(Commands) /\ Len(Tail(typed)) = Len(typed) - 1
      BY <2>5 DEF KeyInv, Keys
    <3>3. Held(key_buffer') = 1
      BY <3>1, <3>2 DEF Held
    <3> QED BY <1>1, <1>2, <1>4, <2>3, <2>5, <3>1, <3>2, <3>3, KindsOfKeys
            DEF KeyInv, Keys, Key, InHand, OffEmpty, FakeOfTimedSave, KeysKept
  <2>6. CASE ~AutoSaveNeeded /\ typed = <<>>
    <3>1. key_buffer' = key_buffer /\ typed' = typed
      BY <1>4, <2>6 DEF KeyPressed
    <3> QED BY <1>1, <1>2, <1>4, <2>3, <2>6, <3>1, KindsOfKeys
            DEF KeyInv, Keys, InHand, OffEmpty, FakeOfTimedSave, KeysKept
  <2> QED BY <2>4, <2>5, <2>6
<1> QED BY <1>3, <1>4

LEMMA TakeKeyStep == ASSUME KeyInv, TakeKey, Platform # "win32" PROVE KeyInv'
<1>1. key = NoKey /\ Held(NoKey) = 0
  BY KindsOfKeys DEF KeyInv, InHand, TakeKey, Held
<1>2. /\ key' = key_buffer /\ key_buffer' = NoKey /\ typed' = typed /\ handled' = handled
      /\ timed_save' = timed_save /\ keys_left' = keys_left
      /\ pc = "get_key" /\ pc' = "dispatch"
  BY DEF TakeKey, GetKey, bound_vars
<1> QED BY <1>1, <1>2, KindsOfKeys
        DEF KeyInv, Keys, InHand, OffEmpty, FakeOfTimedSave, KeysKept, Held

\* The handlers consume a key or put it back, into a buffer that is empty.
LEMMA ConsumeKeyStep == ASSUME KeyInv, ConsumeKey PROVE KeyInv'
<1>1. /\ pc = "dispatch" /\ pc' = "key_pressed" /\ key = "orbit" /\ key' = NoKey
      /\ handled' = handled + 1 /\ UNCHANGED <<key_buffer, typed, timed_save, keys_left>>
  BY DEF ConsumeKey, flag_vars, bound_vars
<1>2. key \in Commands /\ key # Fake
  BY <1>1 DEF KeyInv, Keys, Key, Fake, NoKey
<1>3. Held(key) = 1 /\ Held(NoKey) = 0 /\ key_buffer = NoKey
  BY <1>1, <1>2, KindsOfKeys DEF Held, KeyInv, InHand
<1> QED BY <1>1, <1>2, <1>3, KindsOfKeys DEF KeyInv, Keys, InHand, OffEmpty, FakeOfTimedSave, KeysKept

LEMMA UngetKeyStep == ASSUME KeyInv, UngetKey PROVE KeyInv'
<1>1. /\ pc = "dispatch" /\ pc' \in {"menu", "key_pressed"} /\ key_buffer' = key /\ key' = NoKey
      /\ UNCHANGED <<typed, handled, timed_save, keys_left>>
  BY DEF UngetKey, flag_vars, bound_vars
<1>2. key_buffer = NoKey
  BY <1>1 DEF KeyInv, InHand
<1> QED BY <1>1, <1>2, KindsOfKeys DEF KeyInv, Keys, InHand, OffEmpty, FakeOfTimedSave, KeysKept, Held

-----------------------------------------------------------------------------
\* The menu loop takes what a timed save put there, or a key that was typed.
LEMMA MenuTimedSaveStep == ASSUME KeyInv, MenuTimedSave PROVE KeyInv'
<1>1. /\ pc = "menu" /\ pc' = "save" /\ timed_save = "STARTED" /\ timed_save' = "FINAL"
      /\ EatKey /\ UNCHANGED <<key, handled, keys_left>>
  BY DEF MenuTimedSave, bound_vars
<1>2. key = NoKey /\ key_buffer = Fake
  BY <1>1, KindsOfKeys DEF KeyInv, InHand, FakeOfTimedSave
<1>3. key_buffer' = NoKey /\ typed' = typed
  BY <1>1, <1>2, KindsOfKeys DEF EatKey
<1> QED BY <1>1, <1>2, <1>3, KindsOfKeys
        DEF KeyInv, Keys, InHand, OffEmpty, FakeOfTimedSave, KeysKept, Held

LEMMA MenuKeyStep == ASSUME KeyInv, MenuKey PROVE KeyInv'
<1>1. /\ pc = "menu" /\ timed_save = "NONE" /\ timed_save' = "NONE" /\ AnyKey /\ EatKey
      /\ handled' = handled + 1 /\ UNCHANGED <<key, keys_left>>
  BY DEF MenuKey, bound_vars
<1>2. pc' \in {"start", "save", "menu"}
  BY DEF MenuKey, RedrawImage, SaveByKey, RestoreImage, BrowseImage, NoCommand
<1>3. key = NoKey /\ key_buffer # Fake /\ Held(NoKey) = 0
  BY <1>1, KindsOfKeys DEF KeyInv, InHand, FakeOfTimedSave, Held
<1>4. CASE key_buffer # NoKey
  <2>1. key_buffer \in Commands /\ Held(key_buffer) = 1
    BY <1>3, <1>4 DEF KeyInv, Keys, Key, Held
  <2>2. key_buffer' = NoKey /\ typed' = typed
    BY <1>1, <1>4 DEF EatKey
  <2> QED BY <1>1, <1>2, <1>3, <2>1, <2>2, KindsOfKeys
          DEF KeyInv, Keys, InHand, OffEmpty, FakeOfTimedSave, KeysKept
<1>5. CASE key_buffer = NoKey
  <2>1. typed # <<>> /\ typed' = Tail(typed) /\ key_buffer' = NoKey
    BY <1>1, <1>5 DEF EatKey, AnyKey
  <2>2. Tail(typed) \in Seq(Commands) /\ Len(Tail(typed)) = Len(typed) - 1
    BY <2>1 DEF KeyInv, Keys
  <2> QED BY <1>1, <1>2, <1>3, <1>5, <2>1, <2>2, KindsOfKeys
          DEF KeyInv, Keys, InHand, OffEmpty, FakeOfTimedSave, KeysKept
<1> QED BY <1>4, <1>5

-----------------------------------------------------------------------------
\* What happens around the program.
LEMMA TypeKeyStep == ASSUME KeyInv, TypeKey PROVE KeyInv'
<1>1. PICK k \in Commands : typed' = Append(typed, k)
  BY DEF TypeKey
<1>2. /\ keys_left > 0 /\ keys_left' = keys_left - 1 /\ pc' = pc /\ pc # "off"
      /\ UNCHANGED <<key, key_buffer, handled, timed_save>>
  BY DEF TypeKey, flag_vars
<1>3. typed' \in Seq(Commands) /\ Len(typed') = Len(typed) + 1
  BY <1>1 DEF KeyInv, Keys
<1> QED BY <1>2, <1>3, KindsOfKeys
        DEF KeyInv, Keys, InHand, OffEmpty, FakeOfTimedSave, KeysKept, Held

LEMMA PowerFailsStep == ASSUME KeyInv, PowerFails PROVE KeyInv'
<1>1. /\ pc' = "off" /\ handled' = MaxKeys - keys_left /\ keys_left' = keys_left
      /\ typed' = <<>> /\ key' = NoKey /\ key_buffer' = NoKey
  BY DEF PowerFails
<1>2. handled' \in Nat /\ Len(typed') = 0 /\ typed' \in Seq(Commands)
  BY <1>1 DEF KeyInv, Keys, KeysKept, Held
<1> QED BY <1>1, <1>2, KindsOfKeys
        DEF KeyInv, Keys, InHand, OffEmpty, FakeOfTimedSave, KeysKept, Held

LEMMA StartAgainStep == ASSUME KeyInv, StartAgain PROVE KeyInv'
<1>1. /\ pc = "off" /\ pc' \in {"start", "menu"} /\ timed_save' = "NONE"
      /\ typed' = <<>> /\ key' = NoKey /\ key_buffer' = NoKey
      /\ UNCHANGED <<handled, keys_left>>
  BY DEF StartAgain, FreshMemory, bound_vars
<1>2. typed = <<>> /\ key = NoKey /\ key_buffer = NoKey
  BY <1>1 DEF KeyInv, InHand, OffEmpty
<1> QED BY <1>1, <1>2, KindsOfKeys
        DEF KeyInv, Keys, InHand, OffEmpty, FakeOfTimedSave, KeysKept

-----------------------------------------------------------------------------
\* Files that cannot be written have stop_msg take the keys.
LEMMA CannotOpenFileStep == ASSUME KeyInv, timed_save # "STARTED", CannotOpenFile PROVE KeyInv'
<1>1. /\ pc = "save" /\ pc' = "menu" /\ StopMsg
      /\ UNCHANGED <<timed_save, keys_left, key>>
  BY DEF CannotOpenFile, bound_vars
<1> QED BY <1>1, StopMsgKeys

LEMMA EncodeFailsStep == ASSUME KeyInv, timed_save # "STARTED", EncodeFails PROVE KeyInv'
<1>1. /\ pc = "encode" /\ pc' \in {"menu", "remove"}
      /\ UNCHANGED <<timed_save, keys_left, key>>
  BY DEF EncodeFails
<1>2. CASE init_batch = Interrupted
  <2>1. handled' = MaxKeys - keys_left /\ key_buffer' = NoKey /\ typed' = <<>>
    BY <1>2 DEF EncodeFails
  <2>2. key = NoKey /\ handled' \in Nat /\ Len(typed') = 0 /\ typed' \in Seq(Commands)
    BY <1>1, <2>1 DEF KeyInv, Keys, InHand, KeysKept, Held
  <2> QED BY <1>1, <2>1, <2>2, KindsOfKeys
          DEF KeyInv, Keys, InHand, OffEmpty, FakeOfTimedSave, KeysKept, Held
<1>3. CASE init_batch # Interrupted
  <2>1. UNCHANGED key_vars
    BY <1>1, <1>3 DEF EncodeFails, key_vars
  <2> QED BY <1>1, <2>1, KeysUndisturbed
<1> QED BY <1>2, <1>3

-----------------------------------------------------------------------------
\* Together, for the drivers that look at the timer in key_pressed alone.
LEMMA SaveInit == Init => SaveInv
BY KindsOfKeys DEF Init, SaveInv, KeyInv, Keys, InHand, OffEmpty, FakeOfTimedSave, KeysKept, Held, StartedAt

LEMMA StartedStep == ASSUME SaveInv, Next PROVE StartedAt'
<1>1. CASE KeyPressed
  <2>1. CASE key_buffer # NoKey
    BY <1>1, <2>1 DEF KeyPressed, StartedAt
  <2>2. CASE key_buffer = NoKey
    <3>1. key = NoKey /\ timed_save # "STARTED"
      BY <1>1, <2>2, KindsOfKeys DEF SaveInv, KeyInv, InHand, FakeOfTimedSave, KeyPressed
    <3>2. timed_save' = TimedSaveNow
      BY <1>1, <2>2 DEF KeyPressed, LookAtTimer
    <3>3. CASE AutoSaveNeeded
      BY <1>1, <2>2, <3>3 DEF KeyPressed, Peek, StartedAt
    <3>4. CASE ~AutoSaveNeeded
      BY <3>1, <3>2, <3>4 DEF AutoSaveNeeded, TimedSaveNow, SaveStarts, StartedAt
    <3> QED BY <3>3, <3>4
  <2> QED BY <2>1, <2>2
<1>2. CASE TakeKey \/ ConsumeKey \/ UngetKey
  BY <1>2 DEF TakeKey, ConsumeKey, UngetKey, StartedAt
<1>3. CASE StartImage \/ CountDown \/ FinishPixel
  BY <1>3 DEF StartImage, CountDown, FinishPixel, SaveInv, StartedAt, flag_vars
<1>4. CASE Menu
  BY <1>4 DEF Menu, MenuTimedSave, MenuResumesAfterSave, MenuContinues, MenuKey, MenuBatch, StartedAt,
              flag_vars
<1>5. CASE SaveImage \/ EncodeFails
  BY <1>5 DEF SaveImage, OpenFile, CannotOpenFile, Encode, RemoveFile, RenameFile, EncodeFails,
              SaveInv, StartedAt, flag_vars
<1>6. CASE World
  BY <1>6 DEF World, TypeKey, IntervalPasses, LibraryReadOnly, PowerFails, StartAgain, FreshMemory,
              SaveInv, StartedAt, flag_vars
<1>7. CASE Rest
  BY <1>7 DEF Rest, vars, flag_vars, SaveInv, StartedAt
<1> QED BY <1>1, <1>2, <1>3, <1>4, <1>5, <1>6, <1>7 DEF Next, Program, Calculation

LEMMA SaveNext == ASSUME Platform # "win32", SaveInv, [Next]_vars PROVE SaveInv'
<1> USE DEF SaveInv
<1>1. CASE UNCHANGED vars
  <2>1. UNCHANGED key_vars /\ UNCHANGED <<keys_left, timed_save, pc>>
    BY <1>1 DEF vars, key_vars, flag_vars, bound_vars
  <2> QED BY <2>1, KeysUndisturbed DEF StartedAt
<1>2. CASE Next
  <2>1. StartedAt'
    BY <1>2, StartedStep
  <2>2. timed_save # "STARTED" \/ pc \in {"key_pressed", "get_key", "dispatch", "menu", "off"}
    BY DEF StartedAt
  <2>3. CASE World
    <3>1. CASE IntervalPasses \/ LibraryReadOnly
      <4>1. UNCHANGED key_vars /\ UNCHANGED <<keys_left, timed_save, pc>>
        BY <3>1 DEF IntervalPasses, LibraryReadOnly, flag_vars, bound_vars
      <4> QED BY <2>1, <4>1, KeysUndisturbed
    <3> QED BY <2>1, <2>3, <3>1, TypeKeyStep, PowerFailsStep, StartAgainStep DEF World
  <2>4. CASE Calculation
    <3>1. CASE StartImage \/ CountDown \/ FinishPixel
      <4>1. /\ UNCHANGED key_vars /\ UNCHANGED <<keys_left, timed_save>>
            /\ pc \notin {"dispatch", "off"} /\ pc' \notin {"dispatch", "off"}
        BY <3>1 DEF StartImage, CountDown, FinishPixel, flag_vars, bound_vars
      <4> QED BY <2>1, <4>1, KeysUndisturbed
    <3> QED BY <2>1, <2>4, <3>1, KeyPressedStep, TakeKeyStep, ConsumeKeyStep, UngetKeyStep
            DEF Calculation
  <2>5. CASE Menu
    <3>1. CASE MenuResumesAfterSave
      <4>1. /\ pc = "menu" /\ timed_save = "FINAL" /\ timed_save' = "NONE" /\ pc' \in {"menu", "start"}
            /\ UNCHANGED <<typed, key, key_buffer, handled, keys_left>>
        BY <3>1 DEF MenuResumesAfterSave, key_vars, bound_vars
      <4> QED BY <2>1, <4>1 DEF KeyInv, Keys, InHand, OffEmpty, FakeOfTimedSave, KeysKept, Held
    <3>2. CASE MenuContinues \/ MenuBatch
      <4>1. /\ UNCHANGED key_vars /\ UNCHANGED <<keys_left, timed_save>>
            /\ pc \notin {"dispatch", "off"} /\ pc' \notin {"dispatch", "off"}
        BY <3>2 DEF MenuContinues, MenuBatch, BatchFinishes, BatchSaves, BatchEnds, flag_vars, bound_vars
      <4> QED BY <2>1, <4>1, KeysUndisturbed
    <3> QED BY <2>1, <2>5, <3>1, <3>2, MenuTimedSaveStep, MenuKeyStep DEF Menu
  <2>6. CASE SaveImage
    <3>1. CASE OpenFile \/ Encode \/ RemoveFile \/ RenameFile
      <4>1. /\ UNCHANGED key_vars /\ UNCHANGED <<keys_left, timed_save>>
            /\ pc \notin {"dispatch", "off"} /\ pc' \notin {"dispatch", "off"}
        BY <3>1 DEF OpenFile, Encode, RemoveFile, RenameFile, flag_vars, bound_vars
      <4> QED BY <2>1, <4>1, KeysUndisturbed
    <3>2. CASE CannotOpenFile
      BY <2>1, <2>2, <3>2, CannotOpenFileStep DEF CannotOpenFile
    <3> QED BY <2>6, <3>1, <3>2 DEF SaveImage
  <2>7. CASE EncodeFails
    BY <2>1, <2>2, <2>7, EncodeFailsStep DEF EncodeFails
  <2>8. CASE Rest
    <3>1. UNCHANGED vars
      BY <2>8 DEF Rest
    <3> QED BY <3>1, <1>1
  <2> QED BY <1>2, <2>3, <2>4, <2>5, <2>6, <2>7, <2>8 DEF Next, Program
<1> QED BY <1>1, <1>2

THEOREM TimedSaveInv == ASSUME Platform # "win32" PROVE Spec => []SaveInv
<1>1. Init => SaveInv
  BY SaveInit
<1>2. SaveInv /\ [Next]_vars => SaveInv'
  BY SaveNext
<1> QED BY <1>1, <1>2, PTL DEF Spec

\* The buffer of a driver holds one key: unget_key always finds it empty, whenever the timer
\* puts its own key there, and every key that was typed is in the window, in the buffer
\* or in hand, or has come to its handler.  The key that the menu loop eats before a
\* timed save is always the one the timer put there.  For X11 and for wxWidgets.
THEOREM TimedSaveKeysSafe == ASSUME Platform # "win32" PROVE Spec => []KeysSafe
<1>1. SaveInv => UngetRoom
  BY DEF SaveInv, KeyInv, InHand, UngetRoom
<1>2. SaveInv => KeysKept
  BY DEF SaveInv, KeyInv
<1>3. SaveInv => KeysSafe
  BY <1>1, <1>2 DEF KeysSafe
<1> QED BY <1>3, TimedSaveInv, PTL

-----------------------------------------------------------------------------
\* The file of the timed saves, on any driver.
LEMMA NotNames == 0 \notin Names /\ OfBefore \notin Names
BY BoundsAssumption DEF Names, OfBefore

LEMMA NameInit == Init => NameInv
BY NotNames DEF Init, NameInv, Writing

LEMMA NameNext == ASSUME NameInv, [Next]_vars PROVE NameInv'
<1>1. CASE UNCHANGED vars
  BY <1>1 DEF vars, NameInv, Writing, flag_vars, file_vars
<1>2. CASE World
  BY <1>2, NotNames DEF World, TypeKey, IntervalPasses, LibraryReadOnly, PowerFails, StartAgain,
     FreshMemory, NameInv, Writing, flag_vars, file_vars
<1>3. CASE Calculation
  <2>1. CASE StartImage
    BY <2>1, NotNames DEF StartImage, NameInv, Writing, file_vars
  <2>2. \/ /\ UNCHANGED <<resave_flag, started_resaves, save_filename, writable, timed_name>>
           /\ pc' \notin Writing
        \/ StartImage
    BY <1>3 DEF Calculation, CountDown, FinishPixel, KeyPressed, TakeKey, ConsumeKey, UngetKey,
                Peek, Writing, flag_vars, file_vars
  <2> QED BY <2>1, <2>2 DEF NameInv
<1>4. CASE Menu
  <2>1. CASE MenuTimedSave \/ MenuResumesAfterSave
    BY <2>1 DEF MenuTimedSave, MenuResumesAfterSave, NameInv, Writing, file_vars
  <2>2. CASE MenuContinues \/ MenuBatch
    BY <2>2 DEF MenuContinues, MenuBatch, BatchFinishes, BatchSaves, BatchEnds, NameInv, Writing, flag_vars, file_vars
  <2>3. CASE MenuKey
    BY <2>3, NotNames DEF MenuKey, RedrawImage, SaveByKey, RestoreImage, BrowseImage, NoCommand,
                          NameInv, Writing, file_vars
  <2> QED BY <1>4, <2>1, <2>2, <2>3 DEF Menu
<1>5. CASE SaveImage
  <2>1. CASE OpenFile
    BY <2>1, NotNames DEF OpenFile, FlagsOfSave, NameAfterSave, NameInv, Writing
  <2>2. CASE CannotOpenFile
    BY <2>2 DEF CannotOpenFile, NameInv, Writing
  <2>3. CASE Encode \/ RemoveFile
    <3>1. pc \in Writing /\ UNCHANGED <<resave_flag, started_resaves, save_filename, writable, timed_name, target>>
      BY <2>3 DEF Encode, RemoveFile, Writing, flag_vars
    <3> QED BY <3>1 DEF NameInv
  <2>4. CASE RenameFile
    BY <2>4 DEF RenameFile, NameInv, Writing, flag_vars
  <2> QED BY <1>5, <2>1, <2>2, <2>3, <2>4 DEF SaveImage
<1>6. CASE EncodeFails
  BY <1>6 DEF EncodeFails, NameInv, Writing
<1>7. CASE Rest
  BY <1>7 DEF Rest, vars, NameInv, Writing, flag_vars, file_vars
<1> QED BY <1>1, <1>2, <1>3, <1>4, <1>5, <1>6, <1>7 DEF Next, Program

\* The timed saves of an image and the save that completes the set write one
\* file: save_image neither increments the name nor searches for another one
\* as long as g_started_resaves says that the file is the set's own.
THEOREM TimedSaveOneFile == Spec => TimedSavesOneFile
<1> DEFINE Same == pc = "save" /\ pc' = "encode" /\ resave_flag # "NONE" /\ timed_name \in Names
                      => target' = timed_name
<1>1. Init => NameInv
  BY NameInit
<1>2. NameInv /\ [Next]_vars => NameInv'
  BY NameNext
<1>3. NameInv /\ [Next]_vars => [Same]_vars
  <2> SUFFICES ASSUME NameInv, Next, pc = "save", pc' = "encode", resave_flag # "NONE", timed_name \in Names
               PROVE  target' = timed_name
    OBVIOUS
  <2>1. OpenFile
    BY DEF Next, World, TypeKey, IntervalPasses, LibraryReadOnly, PowerFails, StartAgain, Program,
       Calculation, StartImage, CountDown, FinishPixel, KeyPressed, TakeKey, ConsumeKey, UngetKey,
       Menu, MenuTimedSave, MenuResumesAfterSave, MenuContinues, MenuKey, MenuBatch, SaveImage,
       CannotOpenFile, Encode, RemoveFile, RenameFile, EncodeFails, Rest, vars
  <2>2. started_resaves /\ save_filename = timed_name
    BY <2>1 DEF NameInv, OpenFile
  <2>3. Target = timed_name
    BY <2>2 DEF Target, KeepsName
  <2> QED BY <2>1, <2>3 DEF OpenFile
<1>4. TimedSavesOneFile <=> [][Same]_vars
  BY DEF TimedSavesOneFile
<1> HIDE DEF Same
<1> QED BY <1>1, <1>2, <1>3, <1>4, PTL DEF Spec
-----------------------------------------------------------------------------
\* The files.  What the menu loop and save_image rely on, on any driver.

Calculating == {"pixel", "orbit", "key_pressed", "get_key", "dispatch"}

\* The status of the calculation at each place of the program.
StatusAt ==
    /\ pc \in Calculating => calc_status = "IN_PROGRESS"
    /\ pc \in {"menu", "save", "exited"} \cup Writing => calc_status \in {"RESUMABLE", "COMPLETED"}
    /\ pc = "start" => calc_status = "RESUMABLE" \/ (calc_status = "PARAMS_CHANGED" /\ images < MaxImages)
    /\ calc_status \in {"IN_PROGRESS", "RESUMABLE"} => done < Pixels
    /\ calc_status = "COMPLETED" => done = Pixels

\* A set of timed saves has its flag, and a name.
FlagsAt ==
    /\ started_resaves => resave_flag # "NONE"
    /\ timed_save = "FINAL" => resave_flag = "STARTED" /\ pc \in {"menu", "save", "off"} \cup Writing
    /\ resave_flag # "NONE" /\ pc \notin {"save", "off"} => save_filename \in Names

FlowInv == TypeOK /\ StatusAt /\ FlagsAt

\* What a step leaves alone keeps its types.
LEMMA Frames == ASSUME TypeOK
   PROVE  /\ UNCHANGED calc_vars => CalcOK'
          /\ UNCHANGED timer_vars => TimerOK'
          /\ UNCHANGED flag_vars => FlagOK'
          /\ UNCHANGED key_vars => KeyOK'
          /\ UNCHANGED file_vars => FileOK'
          /\ UNCHANGED bound_vars /\ UNCHANGED timed_name => BoundOK'
          /\ UNCHANGED <<pc, poll, exit>> => PlaceOK'
BY DEF TypeOK, PlaceOK, CalcOK, TimerOK, FlagOK, KeyOK, FileOK, BoundOK, calc_vars, timer_vars,
       flag_vars, key_vars, file_vars, bound_vars

\* The least of some natural numbers is one of them.
LEMMA LeastMember == ASSUME NEW S, S \subseteq Nat, S # {} PROVE Min(S) \in S
<1>1. PICK x \in S : \A y \in S : ~ (<<y, x>> \in OpToRel(<, Nat))
  BY NatLessThanWellFounded, WFMin, Zenon
<1>2. \A y \in S : ~(y < x)
  BY <1>1, Zenon DEF OpToRel
<1>3. \A y \in S : x =< y
  BY <1>2
<1> QED BY <1>1, <1>3, Zenon DEF Min

\* The row of a pixel of the screen is a row of the screen.
LEMMA RowOnScreen == ASSUME NEW n \in Nat, n < Rows * Cols PROVE n \div Cols \in 0 .. Rows
<1>1. Rows \in Nat /\ Cols \in Nat /\ Cols > 0
  BY ScreenAssumption
<1> DEFINE q == n \div Cols
<1>2. q \in Nat /\ Cols * q <= n
  BY <1>1
<1>3. Cols * q < Cols * Rows
  BY <1>1, <1>2
<1>4. q < Rows
  <2>1. CASE q >= Rows
    <3>1. Cols * q >= Cols * Rows
      BY <1>1, <1>2, <2>1
    <3> QED BY <1>1, <1>2, <1>3, <3>1
  <2> QED BY <1>1, <1>2, <2>1
<1> QED BY <1>1, <1>2, <1>4

\* There is a pixel.
LEMMA PixelsNat == Pixels \in Nat \ {0}
BY ScreenAssumption DEF Pixels

\* The name a save takes is one of the library, and no file's unless it is kept.
LEMMA TargetIsName == ASSUME TypeOK, NameLeft
   PROVE  /\ Target \in Names /\ NameAfterSave \in 1 .. MaxNames + 1
          /\ resave_flag = "STARTED" => NameAfterSave \in Names
          /\ ~KeepsName => ~Exists(Target)
<1>1. CASE KeepsName
  BY <1>1, BoundsAssumption DEF NameLeft, Target, NameAfterSave, Names, TypeOK, FlagOK
<1>2. CASE ~KeepsName
  <2>1. Unused \subseteq Nat /\ Unused # {} /\ Unused \subseteq Names
    BY <1>2, BoundsAssumption DEF NameLeft, Unused, Names
  <2>2. Target \in Unused
    BY <1>2, <2>1, LeastMember DEF Target
  <2>3. Target \in Names /\ ~Exists(Target)
    BY <2>1, <2>2 DEF Unused
  <2> QED BY <1>2, <2>3, BoundsAssumption DEF NameAfterSave, Names
<1> QED BY <1>1, <1>2

\* A file that is written is one.
LEMMA WrittenIsFile == ASSUME TypeOK PROVE \A whole \in BOOLEAN : Written(whole) \in File
BY DEF TypeOK, CalcOK, Written, File

\* What stop_msg leaves of the keys.
LEMMA StopMsgTypes == ASSUME TypeOK, StopMsg, key' = key PROVE KeyOK' /\ init_batch' \in BatchModes
<1>1. MaxKeys - keys_left \in Nat
  BY BoundsAssumption DEF TypeOK, BoundOK
<1>2. CASE init_batch \in {"NONE", "FINISH_CALC"}
  BY <1>1, <1>2 DEF TypeOK, KeyOK, FlagOK, StopMsg
<1>3. CASE init_batch \notin {"NONE", "FINISH_CALC"}
  BY <1>3 DEF TypeOK, KeyOK, FlagOK, StopMsg, BatchModes
<1> QED BY <1>2, <1>3

-----------------------------------------------------------------------------
\* What happens around the program.
LEMMA FlowTypeKey == ASSUME FlowInv, TypeKey PROVE FlowInv'
<1>1. PICK k \in Commands : typed' = Append(typed, k)
  BY DEF TypeKey
<1>2. KeyOK'
  BY <1>1 DEF TypeKey, FlowInv, TypeOK, KeyOK
<1>3. BoundOK'
  BY BoundsAssumption DEF TypeKey, FlowInv, TypeOK, BoundOK
<1>4. StatusAt' /\ FlagsAt'
  BY DEF TypeKey, FlowInv, StatusAt, FlagsAt, calc_vars, flag_vars
<1> QED BY <1>2, <1>3, <1>4, Frames DEF TypeKey, FlowInv, TypeOK

LEMMA FlowIntervalPasses == ASSUME FlowInv, IntervalPasses PROVE FlowInv'
<1>1. TimerOK'
  BY DEF IntervalPasses, FlowInv, TypeOK, TimerOK
<1>2. StatusAt' /\ FlagsAt'
  BY DEF IntervalPasses, FlowInv, StatusAt, FlagsAt, calc_vars, flag_vars, bound_vars
<1> QED BY <1>1, <1>2, Frames DEF IntervalPasses, FlowInv, TypeOK

LEMMA FlowLibraryReadOnly == ASSUME FlowInv, LibraryReadOnly PROVE FlowInv'
<1>1. FileOK'
  BY DEF LibraryReadOnly, FlowInv, TypeOK, FileOK
<1>3. BoundOK'
  BY BoundsAssumption DEF LibraryReadOnly, FlowInv, TypeOK, BoundOK
<1>2. StatusAt' /\ FlagsAt'
  BY DEF LibraryReadOnly, FlowInv, StatusAt, FlagsAt, calc_vars, flag_vars
<1> QED BY <1>1, <1>2, <1>3, Frames DEF LibraryReadOnly, FlowInv, TypeOK

LEMMA FlowPowerFails == ASSUME FlowInv, PowerFails PROVE FlowInv'
<1>1. KeyOK' /\ BoundOK'
  BY BoundsAssumption DEF PowerFails, FlowInv, TypeOK, KeyOK, BoundOK
<1>2. StatusAt' /\ FlagsAt'
  BY DEF PowerFails, FlowInv, StatusAt, FlagsAt, calc_vars, flag_vars, Calculating, Writing
<1>3. PlaceOK'
  BY DEF PowerFails, FlowInv, TypeOK, PlaceOK, Places
<1> QED BY <1>1, <1>2, <1>3, Frames DEF PowerFails, FlowInv, TypeOK

\* An image that is shown is one of a file, completed or to be resumed.
LEMMA ShownImage == ASSUME TypeOK, NEW n \in Names, ShowsImage(files[n])
   PROVE  /\ image' \in 0..MaxImages /\ done' \in 0..Pixels
          /\ calc_status' \in {"RESUMABLE", "COMPLETED"}
          /\ calc_status' = "RESUMABLE" => done' < Pixels
          /\ calc_status' = "COMPLETED" => done' = Pixels
<1>1. files[n] \in File
  BY DEF TypeOK, FileOK
<1>2. files[n].image \in 0..MaxImages /\ files[n].done \in 0..Pixels
  BY <1>1 DEF File
<1> QED BY <1>2, PixelsNat DEF ShowsImage

LEMMA FlowStartAgain == ASSUME FlowInv, StartAgain PROVE FlowInv'
<1>1. /\ image' \in 0..MaxImages /\ done' \in 0..Pixels
      /\ calc_status' \in {"PARAMS_CHANGED", "RESUMABLE", "COMPLETED"}
      /\ calc_status' = "RESUMABLE" => done' < Pixels
      /\ calc_status' = "COMPLETED" => done' = Pixels
      /\ \/ pc' = "start" /\ calc_status' = "PARAMS_CHANGED" /\ images < MaxImages
         \/ pc' = "menu" /\ calc_status' \in {"RESUMABLE", "COMPLETED"}
      /\ init_batch' \in {"NORMAL", "NONE", "FINISH_CALC"}
  <2>1. PICK batch \in Batches :
          \/ /\ images < MaxImages
             /\ image' = 0 /\ done' = 0 /\ calc_status' = "PARAMS_CHANGED"
             /\ init_batch' = IF batch THEN "NORMAL" ELSE "NONE"
             /\ pc' = "start"
          \/ /\ batch
             /\ \E n \in Names : files[n].whole /\ ShowsImage(files[n])
             /\ init_batch' = IF calc_status' = "RESUMABLE" THEN "FINISH_CALC" ELSE "NORMAL"
             /\ pc' = "menu"
    BY DEF StartAgain
  <2>2. CASE images < MaxImages /\ image' = 0 /\ done' = 0 /\ calc_status' = "PARAMS_CHANGED"
             /\ init_batch' = (IF batch THEN "NORMAL" ELSE "NONE") /\ pc' = "start"
    BY <2>2, PixelsNat, BoundsAssumption
  <2>3. CASE \E n \in Names : ShowsImage(files[n])
    <3>1. PICK n \in Names : ShowsImage(files[n])
      BY <2>3
    <3>2. /\ image' \in 0..MaxImages /\ done' \in 0..Pixels
          /\ calc_status' \in {"RESUMABLE", "COMPLETED"}
          /\ calc_status' = "RESUMABLE" => done' < Pixels
          /\ calc_status' = "COMPLETED" => done' = Pixels
      BY <3>1, ShownImage DEF FlowInv
    <3>3. CASE pc' = "menu" /\ init_batch' = (IF calc_status' = "RESUMABLE" THEN "FINISH_CALC" ELSE "NORMAL")
      BY <3>2, <3>3
    <3> QED BY <2>1, <2>2, <3>3
  <2> QED BY <2>1, <2>2, <2>3
<1>2. /\ pc' \in {"start", "menu"} /\ timed_save' = "NONE" /\ resave_flag' = "NONE"
      /\ started_resaves' = FALSE /\ save_filename' = 1 /\ images' = images
  BY DEF StartAgain, FreshMemory, bound_vars
<1>3. StatusAt' /\ FlagsAt'
  BY <1>1, <1>2 DEF StatusAt, FlagsAt, Calculating, Writing
<1>4. PlaceOK' /\ CalcOK'
  BY <1>1, ScreenAssumption DEF StartAgain, FreshMemory, PlaceOK, Places, CalcOK
<1>5. TimerOK'
  <2>1. ticking' \in BOOLEAN /\ expired' \in BOOLEAN
    BY DEF StartAgain, FreshMemory
  <2>2. finish_row' \in 0..NoRow
    BY ScreenAssumption DEF StartAgain, FreshMemory, NoRow
  <2> QED BY <2>1, <2>2 DEF TimerOK, NoRow
<1>8. KeyOK'
  BY DEF StartAgain, FreshMemory, FlowInv, TypeOK, KeyOK
<1>6. FlagOK'
  <2>1. started_resaves' \in BOOLEAN
    BY <1>2
  <2>2. save_filename' \in 1..MaxNames + 1
    BY <1>2, BoundsAssumption
  <2> QED BY <1>1, <1>2, <2>1, <2>2 DEF FlagOK, BatchModes
<1>7. FileOK' /\ BoundOK'
  BY BoundsAssumption DEF StartAgain, FreshMemory, FlowInv, TypeOK, FileOK, BoundOK, Names, bound_vars
<1> QED BY <1>3, <1>4, <1>5, <1>6, <1>7, <1>8 DEF FlowInv, TypeOK

LEMMA FlowWorld == ASSUME FlowInv, World PROVE FlowInv'
BY FlowTypeKey, FlowIntervalPasses, FlowLibraryReadOnly, FlowPowerFails, FlowStartAgain DEF World

-----------------------------------------------------------------------------
\* The calculation.
LEMMA TimerTypes == ASSUME FlowInv, LookAtTimer, pc \in Calculating
   PROVE  /\ finish_row' \in 0..NoRow /\ timed_save' \in {"NONE", "STARTED", "FINAL"}
          /\ timed_save' = "FINAL" => timed_save = "FINAL"
<1>1. done \in Nat /\ done < Rows * Cols
  BY PixelsNat DEF FlowInv, StatusAt, TypeOK, CalcOK, Pixels
<1>2. Row \in 0 .. Rows
  BY <1>1, RowOnScreen DEF Row
<1> QED BY <1>2 DEF FlowInv, TypeOK, TimerOK, FlagOK, LookAtTimer, RowToFinish, TimedSaveNow, NoRow

LEMMA FlowStartImage == ASSUME FlowInv, StartImage PROVE FlowInv'
<1>1. ASSUME calc_status = "RESUMABLE" PROVE CalcOK' /\ BoundOK' /\ FlagOK' /\ FlagsAt' /\ done' < Pixels
  <2>1. UNCHANGED <<image, done, images, save_filename, resave_flag, started_resaves, timed_name>>
    BY <1>1 DEF StartImage
  <2>2. CalcOK' /\ BoundOK' /\ FlagOK'
    BY <2>1, ScreenAssumption DEF StartImage, FlowInv, TypeOK, CalcOK, BoundOK, FlagOK
  <2>3. done' < Pixels
    BY <1>1, <2>1 DEF FlowInv, StatusAt
  <2>4. FlagsAt'
    BY <2>1 DEF StartImage, FlowInv, FlagsAt, Writing
  <2> QED BY <2>2, <2>3, <2>4
<1>2. ASSUME calc_status # "RESUMABLE" PROVE CalcOK' /\ BoundOK' /\ FlagOK' /\ FlagsAt' /\ done' < Pixels
  <2>1. /\ images' = images + 1 /\ image' = images + 1 /\ done' = 0 /\ resave_flag' = "NONE"
        /\ started_resaves' = FALSE /\ timed_name' = 0 /\ save_filename' = NameForNewImage
    BY <1>2 DEF StartImage
  <2>2. images < MaxImages
    BY <1>2 DEF StartImage, FlowInv, StatusAt
  <2>3. save_filename' \in 1 .. MaxNames + 1
    BY <2>1, BoundsAssumption DEF StartImage, NameForNewImage, FlowInv, TypeOK, FlagOK, FlagsAt, Names
  <2>4. CalcOK' /\ BoundOK'
    BY <2>1, <2>2, BoundsAssumption, ScreenAssumption, PixelsNat DEF StartImage, FlowInv, TypeOK, CalcOK, BoundOK
  <2>5. FlagOK' /\ FlagsAt'
    BY <2>1, <2>3 DEF StartImage, FlowInv, TypeOK, FlagOK, FlagsAt, Writing
  <2> QED BY <2>1, <2>4, <2>5, PixelsNat
<1>3. PlaceOK'
  BY DEF StartImage, FlowInv, TypeOK, PlaceOK, Places
<1>5. TimerOK'
  <2>1. ticking' \in BOOLEAN /\ expired' \in BOOLEAN
    BY DEF StartImage
  <2>2. finish_row' \in 0..NoRow
    BY ScreenAssumption DEF StartImage, NoRow
  <2> QED BY <2>1, <2>2 DEF TimerOK, NoRow
<1>4. StatusAt'
  BY <1>1, <1>2 DEF StartImage, StatusAt, Calculating, Writing
<1> QED BY <1>1, <1>2, <1>3, <1>4, <1>5, Frames DEF StartImage, FlowInv, TypeOK

LEMMA FlowCountDown == ASSUME FlowInv, CountDown PROVE FlowInv'
<1>1. PlaceOK'
  BY DEF CountDown, FlowInv, TypeOK, PlaceOK, Places
<1>2. CalcOK'
  BY ScreenAssumption DEF CountDown, FlowInv, TypeOK, CalcOK
<1>3. StatusAt' /\ FlagsAt'
  BY DEF CountDown, FlowInv, StatusAt, FlagsAt, Calculating, Writing, flag_vars
<1> QED BY <1>1, <1>2, <1>3, Frames DEF CountDown, FlowInv, TypeOK

LEMMA FlowFinishPixel == ASSUME FlowInv, FinishPixel PROVE FlowInv'
<1>1. done' = done + 1 /\ done \in Nat /\ done < Pixels /\ calc_status = "IN_PROGRESS" /\ pc = "orbit"
  BY DEF FinishPixel, FlowInv, TypeOK, CalcOK, StatusAt, Calculating
<1>2. CalcOK'
  BY <1>1, PixelsNat DEF FinishPixel, FlowInv, TypeOK, CalcOK
<1>3. PlaceOK' /\ TimerOK'
  BY DEF FinishPixel, FlowInv, TypeOK, PlaceOK, Places, TimerOK
<1>4. \/ calc_status' = "COMPLETED" /\ pc' = "menu" /\ done' = Pixels
      \/ calc_status' = "IN_PROGRESS" /\ pc' = "pixel" /\ done' < Pixels
  BY <1>1, PixelsNat DEF FinishPixel, LastPixel
<1>5. StatusAt' /\ FlagsAt'
  BY <1>1, <1>4 DEF FinishPixel, FlowInv, StatusAt, FlagsAt, Calculating, Writing, flag_vars
<1> QED BY <1>2, <1>3, <1>5, Frames DEF FinishPixel, FlowInv, TypeOK

LEMMA FlowKeyPressed == ASSUME FlowInv, KeyPressed PROVE FlowInv'
<1>1. pc = "key_pressed" /\ pc' \in {"get_key", "orbit"}
  BY DEF KeyPressed, Peek
<1>2. /\ finish_row' \in 0..NoRow /\ timed_save' \in {"NONE", "STARTED", "FINAL"}
      /\ timed_save' = "FINAL" => timed_save = "FINAL"
  BY <1>1, TimerTypes DEF KeyPressed, FlowInv, TypeOK, TimerOK, FlagOK, Calculating
<1>3. KeyOK'
  <2>1. typed # <<>> => Head(typed) \in Commands /\ Tail(typed) \in Seq(Commands)
    BY DEF FlowInv, TypeOK, KeyOK
  <2>2. key_buffer' \in {key_buffer, Fake} \/ (typed # <<>> /\ key_buffer' = Head(typed))
    BY DEF KeyPressed, Peek
  <2>3. typed' = typed \/ (typed # <<>> /\ typed' = Tail(typed))
    BY DEF KeyPressed
  <2> QED BY <2>1, <2>2, <2>3 DEF KeyPressed, FlowInv, TypeOK, KeyOK, Key
<1>4. PlaceOK' /\ TimerOK' /\ FlagOK'
  BY <1>1, <1>2 DEF KeyPressed, FlowInv, TypeOK, PlaceOK, Places, TimerOK, FlagOK
<1>5. StatusAt' /\ FlagsAt'
  BY <1>1, <1>2 DEF KeyPressed, FlowInv, StatusAt, FlagsAt, Calculating, Writing, calc_vars, bound_vars
<1> QED BY <1>3, <1>4, <1>5, Frames DEF KeyPressed, FlowInv, TypeOK

LEMMA FlowTakeKey == ASSUME FlowInv, TakeKey PROVE FlowInv'
<1>1. pc = "get_key" /\ pc' = "dispatch"
  BY DEF TakeKey
<1>2. /\ finish_row' \in 0..NoRow /\ timed_save' \in {"NONE", "STARTED", "FINAL"}
      /\ timed_save' = "FINAL" => timed_save = "FINAL"
  BY <1>1, TimerTypes DEF TakeKey, GetKey, FlowInv, TypeOK, TimerOK, FlagOK, Calculating
<1>3. KeyOK'
  <2>1. key' \in {key_buffer, Fake} /\ key_buffer' \in {key_buffer, NoKey}
    BY DEF TakeKey, GetKey
  <2> QED BY <2>1 DEF TakeKey, FlowInv, TypeOK, KeyOK, Key
<1>4. PlaceOK' /\ TimerOK' /\ FlagOK'
  BY <1>1, <1>2 DEF TakeKey, FlowInv, TypeOK, PlaceOK, Places, TimerOK, FlagOK
<1>5. StatusAt' /\ FlagsAt'
  BY <1>1, <1>2 DEF TakeKey, FlowInv, StatusAt, FlagsAt, Calculating, Writing, calc_vars, bound_vars
<1> QED BY <1>3, <1>4, <1>5, Frames DEF TakeKey, FlowInv, TypeOK

LEMMA FlowHandlers == ASSUME FlowInv, ConsumeKey \/ UngetKey PROVE FlowInv'
<1>1. CASE ConsumeKey
  <2>1. KeyOK' /\ PlaceOK'
    BY <1>1 DEF ConsumeKey, FlowInv, TypeOK, KeyOK, PlaceOK, Places
  <2>2. StatusAt' /\ FlagsAt'
    BY <1>1 DEF ConsumeKey, FlowInv, StatusAt, FlagsAt, Calculating, Writing, calc_vars, flag_vars
  <2> QED BY <1>1, <2>1, <2>2, Frames DEF ConsumeKey, FlowInv, TypeOK
<1>2. CASE UngetKey
  <2>1. KeyOK' /\ PlaceOK' /\ TimerOK'
    BY <1>2 DEF UngetKey, FlowInv, TypeOK, KeyOK, PlaceOK, Places, TimerOK
  <2>2. CalcOK'
    BY <1>2 DEF UngetKey, FlowInv, TypeOK, CalcOK
  <2>3. StatusAt' /\ FlagsAt'
    BY <1>2 DEF UngetKey, FlowInv, StatusAt, FlagsAt, Calculating, Writing, flag_vars
  <2> QED BY <1>2, <2>1, <2>2, <2>3, Frames DEF UngetKey, FlowInv, TypeOK
<1> QED BY <1>1, <1>2

LEMMA FlowCalculation == ASSUME FlowInv, Calculation PROVE FlowInv'
BY FlowStartImage, FlowCountDown, FlowFinishPixel, FlowKeyPressed, FlowTakeKey, FlowHandlers DEF Calculation

-----------------------------------------------------------------------------
\* The menu loop.
LEMMA EatenKeyTypes == ASSUME TypeOK, AnyKey, EatKey, key' = key, handled' \in Nat PROVE KeyOK'
<1>1. typed # <<>> => Tail(typed) \in Seq(Commands)
  BY DEF TypeOK, KeyOK
<1> QED BY <1>1 DEF AnyKey, EatKey, TypeOK, KeyOK

\* What the set of timed saves becomes when another image comes.
LEMMA ForgottenTypes == ASSUME FlowInv, ForgetResaves, pc = "menu"
   PROVE  save_filename' \in 1 .. MaxNames + 1 /\ resave_flag' = "NONE" /\ started_resaves' = FALSE
BY BoundsAssumption DEF FlowInv, TypeOK, FlagOK, FlagsAt, ForgetResaves, NameForNewImage, Names

LEMMA FlowMenuTimedSave == ASSUME FlowInv, MenuTimedSave PROVE FlowInv'
<1>1. KeyOK'
  BY EatenKeyTypes DEF MenuTimedSave, FlowInv, TypeOK, KeyOK
<1>2. PlaceOK' /\ FlagOK'
  BY DEF MenuTimedSave, FlowInv, TypeOK, PlaceOK, Places, FlagOK
<1>3. StatusAt' /\ FlagsAt'
  BY DEF MenuTimedSave, FlowInv, StatusAt, FlagsAt, Calculating, Writing, calc_vars, bound_vars
<1> QED BY <1>1, <1>2, <1>3, Frames DEF MenuTimedSave, FlowInv, TypeOK

LEMMA FlowMenuResumes == ASSUME FlowInv, MenuResumesAfterSave PROVE FlowInv'
<1>1. PlaceOK' /\ FlagOK'
  BY DEF MenuResumesAfterSave, FlowInv, TypeOK, PlaceOK, Places, FlagOK
<1>2. StatusAt' /\ FlagsAt'
  BY DEF MenuResumesAfterSave, FlowInv, StatusAt, FlagsAt, Calculating, Writing, calc_vars, bound_vars
<1> QED BY <1>1, <1>2, Frames DEF MenuResumesAfterSave, FlowInv, TypeOK

LEMMA FlowMenuContinues == ASSUME FlowInv, MenuContinues PROVE FlowInv'
<1>1. PlaceOK'
  BY DEF MenuContinues, FlowInv, TypeOK, PlaceOK, Places
<1>2. StatusAt' /\ FlagsAt'
  BY DEF MenuContinues, FlowInv, StatusAt, FlagsAt, Calculating, Writing, calc_vars, flag_vars, bound_vars
<1> QED BY <1>1, <1>2, Frames DEF MenuContinues, FlowInv, TypeOK

LEMMA FlowMenuBatch == ASSUME FlowInv, MenuBatch PROVE FlowInv'
<1>1. pc' \in {"menu", "start", "save", "exited"} /\ (pc' = "start" => calc_status # "COMPLETED")
      /\ init_batch' \in BatchModes /\ exit' \in {0, 2} /\ timed_save = "NONE" /\ pc = "menu"
  BY DEF MenuBatch, BatchFinishes, BatchSaves, BatchEnds, FlowInv, TypeOK, PlaceOK, FlagOK, BatchModes
<1>2. PlaceOK' /\ FlagOK'
  BY <1>1 DEF MenuBatch, FlowInv, TypeOK, PlaceOK, Places, FlagOK
<1>3. StatusAt' /\ FlagsAt'
  BY <1>1 DEF MenuBatch, FlowInv, StatusAt, FlagsAt, Calculating, Writing, calc_vars, bound_vars
<1> QED BY <1>2, <1>3, Frames DEF MenuBatch, FlowInv, TypeOK

LEMMA FlowMenuKey == ASSUME FlowInv, MenuKey PROVE FlowInv'
<1>1. KeyOK'
  BY EatenKeyTypes DEF MenuKey, FlowInv, TypeOK, KeyOK
<1>2. /\ pc = "menu" /\ timed_save = "NONE" /\ timed_save' = "NONE" /\ init_batch' = init_batch
      /\ UNCHANGED <<timer_vars, file_vars, bound_vars, poll, check, exit>>
      /\ \/ images < MaxImages /\ RedrawImage
         \/ SaveByKey
         \/ RestoreImage
         \/ BrowseImage
         \/ NoCommand
  BY DEF MenuKey
<1>3. calc_status \in {"RESUMABLE", "COMPLETED"}
  BY <1>2 DEF FlowInv, StatusAt
<1> DEFINE Changed == /\ pc' \in {"start", "menu", "save"} /\ image' \in 0..MaxImages /\ done' \in 0..Pixels
                      /\ calc_status' \in {"PARAMS_CHANGED", "RESUMABLE", "COMPLETED"}
                      /\ save_filename' \in 1..MaxNames + 1 /\ timed_name' \in Names \cup {0, OfBefore}
                      /\ resave_flag' \in {"NONE", "STARTED", "FINAL"} /\ started_resaves' \in BOOLEAN
                      /\ StatusAt' /\ FlagsAt'
<1>4. ASSUME images < MaxImages /\ RedrawImage PROVE Changed
  <2>1. StatusAt' /\ FlagsAt'
    BY <1>2, <1>4 DEF RedrawImage, FlowInv, StatusAt, FlagsAt, Calculating, Writing, bound_vars
  <2> QED BY <1>2, <1>4, <2>1 DEF RedrawImage, FlowInv, TypeOK, CalcOK, FlagOK, BoundOK
<1>5. ASSUME SaveByKey \/ NoCommand PROVE Changed
  <2>1. StatusAt' /\ FlagsAt'
    BY <1>2, <1>3, <1>5 DEF SaveByKey, NoCommand, FlowInv, StatusAt, FlagsAt, Calculating, Writing, bound_vars
  <2>2. pc' \in {"save", "menu"} /\ UNCHANGED <<calc_status, image, done, save_filename, resave_flag,
                                               started_resaves, timed_name>>
    BY <1>5 DEF SaveByKey, NoCommand
  <2> QED BY <1>2, <1>3, <2>1, <2>2 DEF FlowInv, TypeOK, CalcOK, FlagOK, BoundOK
<1>6. ASSUME RestoreImage \/ BrowseImage PROVE Changed
  <2>1. PICK n \in Names : ShowsImage(files[n])
    BY <1>6 DEF RestoreImage, BrowseImage
  <2>2. /\ image' \in 0..MaxImages /\ done' \in 0..Pixels
        /\ calc_status' \in {"RESUMABLE", "COMPLETED"}
        /\ calc_status' = "RESUMABLE" => done' < Pixels
        /\ calc_status' = "COMPLETED" => done' = Pixels
    BY <2>1, ShownImage DEF FlowInv
  <2>3. pc' = "menu" /\ timed_name' \in {0, OfBefore}
    BY <1>6 DEF RestoreImage, BrowseImage
  <2>4. /\ save_filename' \in 1..MaxNames + 1
        /\ resave_flag' \in {"NONE", "STARTED", "FINAL"} /\ started_resaves' \in BOOLEAN
        /\ started_resaves' => resave_flag' # "NONE"
        /\ resave_flag' # "NONE" => save_filename' \in Names
    <3>1. CASE RestoreImage
      BY <1>2, <3>1, ForgottenTypes DEF RestoreImage
    <3>2. CASE BrowseImage
      BY <1>2, <3>2 DEF BrowseImage, FlowInv, TypeOK, FlagOK, FlagsAt
    <3> QED BY <1>6, <3>1, <3>2
  <2>5. StatusAt' /\ FlagsAt'
    BY <1>2, <2>2, <2>3, <2>4 DEF StatusAt, FlagsAt, Calculating, Writing
  <2> QED BY <2>2, <2>3, <2>4, <2>5
<1>7. Changed
  BY <1>2, <1>4, <1>5, <1>6
<1>8. PlaceOK' /\ CalcOK' /\ FlagOK' /\ BoundOK'
  BY <1>2, <1>7 DEF FlowInv, TypeOK, PlaceOK, Places, CalcOK, FlagOK, BoundOK, bound_vars
<1> QED BY <1>1, <1>2, <1>7, <1>8, Frames DEF FlowInv, TypeOK

LEMMA FlowMenu == ASSUME FlowInv, Menu PROVE FlowInv'
BY FlowMenuTimedSave, FlowMenuResumes, FlowMenuContinues, FlowMenuKey, FlowMenuBatch DEF Menu

-----------------------------------------------------------------------------
\* save_image.
LEMMA FlowOpenFile == ASSUME FlowInv, OpenFile PROVE FlowInv'
<1>1. /\ Target \in Names /\ NameAfterSave \in 1 .. MaxNames + 1
      /\ resave_flag = "STARTED" => NameAfterSave \in Names
  BY TargetIsName DEF OpenFile, FlowInv
<1>2. FileOK'
  <2>1. Written(FALSE) \in File
    BY WrittenIsFile DEF FlowInv
  <2>2. files' \in [Names -> File] /\ id_tmp' \in File
    BY <1>1, <2>1 DEF OpenFile, FlowInv, TypeOK, FileOK
  <2>3. new_file' \in BOOLEAN /\ target' \in Names /\ writable' = writable
    BY <1>1 DEF OpenFile, Exists
  <2> QED BY <2>2, <2>3 DEF FlowInv, TypeOK, FileOK
<1>3. BoundOK'
  <2>1. timed_name' \in Names \cup {0, OfBefore}
    BY <1>1 DEF OpenFile
  <2> QED BY <2>1 DEF OpenFile, FlowInv, TypeOK, BoundOK, bound_vars
<1>4. FlagOK'
  <2>1. started_resaves' \in BOOLEAN /\ resave_flag' \in {"NONE", "STARTED", "FINAL"}
    BY DEF OpenFile, FlagsOfSave, FlowInv, TypeOK, FlagOK
  <2> QED BY <1>1, <2>1 DEF OpenFile, FlowInv, TypeOK, FlagOK
<1>5. PlaceOK' /\ StatusAt'
  BY DEF OpenFile, FlowInv, TypeOK, PlaceOK, Places, StatusAt, Calculating, Writing, calc_vars, bound_vars
<1>6. FlagsAt'
  <2>1. /\ started_resaves' = (resave_flag = "STARTED")
        /\ resave_flag' = (IF resave_flag = "FINAL" THEN "NONE" ELSE resave_flag)
        /\ resave_flag \in {"NONE", "STARTED", "FINAL"}
        /\ save_filename' = NameAfterSave /\ pc' = "encode" /\ timed_save' = timed_save
    BY DEF OpenFile, FlagsOfSave, FlowInv, TypeOK, FlagOK
  <2> QED BY <1>1, <2>1 DEF FlowInv, FlagsAt, Writing
<1> QED BY <1>2, <1>3, <1>4, <1>5, <1>6, Frames DEF OpenFile, FlowInv, TypeOK

LEMMA FlowCannotOpenFile == ASSUME FlowInv, CannotOpenFile PROVE FlowInv'
<1>1. save_filename' \in Names
  <2>1. NameAfterSave \in 1 .. MaxNames + 1
    BY TargetIsName DEF CannotOpenFile, FlowInv
  <2>2. Min({NameAfterSave, MaxNames}) \in {NameAfterSave, MaxNames}
    BY <2>1, BoundsAssumption, LeastMember
  <2>3. Min({NameAfterSave, MaxNames}) <= MaxNames
    <3>1. \E x \in {NameAfterSave, MaxNames} : \A y \in {NameAfterSave, MaxNames} : x =< y
      BY <2>1, BoundsAssumption
    <3> QED BY <3>1, <2>1, BoundsAssumption DEF Min
  <2> QED BY <2>1, <2>2, <2>3, BoundsAssumption DEF CannotOpenFile, Names
<1>2. KeyOK' /\ init_batch' \in BatchModes
  BY StopMsgTypes DEF CannotOpenFile, FlowInv
<1>3. /\ resave_flag' \in {"NONE", "STARTED", "FINAL"} /\ started_resaves' \in BOOLEAN
      /\ started_resaves' => resave_flag' # "NONE"
      /\ resave_flag = "STARTED" => resave_flag' = "STARTED"
  <2>1. CASE UNCHANGED <<resave_flag, started_resaves>>
    BY <2>1 DEF FlowInv, TypeOK, FlagOK, FlagsAt
  <2>2. CASE FlagsOfSave
    BY <2>2 DEF FlagsOfSave, FlowInv, TypeOK, FlagOK
  <2> QED BY <2>1, <2>2 DEF CannotOpenFile
<1>4. FlagOK'
  BY <1>1, <1>2, <1>3, BoundsAssumption DEF CannotOpenFile, FlowInv, TypeOK, FlagOK, Names
<1>5. PlaceOK' /\ StatusAt'
  BY DEF CannotOpenFile, FlowInv, TypeOK, PlaceOK, Places, StatusAt, Calculating, Writing, calc_vars, bound_vars
<1>6. FlagsAt'
  BY <1>1, <1>3 DEF CannotOpenFile, FlowInv, FlagsAt, Writing
<1>7. FileOK'
  BY DEF CannotOpenFile, FlowInv, TypeOK, FileOK
<1> QED BY <1>2, <1>4, <1>5, <1>6, <1>7, Frames DEF CannotOpenFile, FlowInv, TypeOK

LEMMA FlowEncode == ASSUME FlowInv, Encode \/ RemoveFile \/ RenameFile PROVE FlowInv'
<1>1. NoFile \in File /\ Written(TRUE) \in File
  <2>1. NoFile \in File
    BY BoundsAssumption, PixelsNat DEF NoFile, File
  <2> QED BY <2>1, WrittenIsFile DEF FlowInv
<1>2. FileOK'
  BY <1>1 DEF Encode, RemoveFile, RenameFile, FlowInv, TypeOK, FileOK
<1>3. UNCHANGED <<poll, calc_vars, timer_vars, flag_vars, key_vars, exit, bound_vars>>
  BY DEF Encode, RemoveFile, RenameFile
<1>4. pc \in Writing /\ pc' \in {"menu"} \cup Writing
  BY DEF Encode, RemoveFile, RenameFile, Writing
<1>5. PlaceOK' /\ StatusAt' /\ FlagsAt'
  BY <1>3, <1>4 DEF FlowInv, TypeOK, PlaceOK, Places, StatusAt, FlagsAt, Calculating, Writing, calc_vars, flag_vars,
                    bound_vars
<1>6. BoundOK'
  BY <1>3 DEF Encode, RemoveFile, RenameFile, FlowInv, TypeOK, BoundOK, FileOK, bound_vars
<1> QED BY <1>2, <1>3, <1>5, <1>6, Frames DEF FlowInv, TypeOK

LEMMA FlowEncodeFails == ASSUME FlowInv, EncodeFails PROVE FlowInv'
<1>1. KeyOK'
  <2>1. MaxKeys - keys_left \in Nat
    BY BoundsAssumption DEF FlowInv, TypeOK, BoundOK
  <2>2. CASE init_batch = Interrupted
    BY <2>1, <2>2 DEF EncodeFails, FlowInv, TypeOK, KeyOK
  <2>3. CASE init_batch # Interrupted
    BY <2>3 DEF EncodeFails, FlowInv, TypeOK, KeyOK
  <2> QED BY <2>2, <2>3
<1>2. FileOK'
  <2>1. NoFile \in File
    BY BoundsAssumption, PixelsNat DEF NoFile, File
  <2> QED BY <2>1 DEF EncodeFails, RemoveTmp, FlowInv, TypeOK, FileOK
<1>3. BoundOK'
  BY BoundsAssumption DEF EncodeFails, FlowInv, TypeOK, BoundOK
<1>4. PlaceOK' /\ FlagOK'
  BY DEF EncodeFails, Interrupted, FlowInv, TypeOK, PlaceOK, Places, FlagOK, BatchModes
<1>5. StatusAt' /\ FlagsAt'
  BY DEF EncodeFails, FlowInv, StatusAt, FlagsAt, Calculating, Writing, calc_vars
<1> QED BY <1>1, <1>2, <1>3, <1>4, <1>5, Frames DEF EncodeFails, FlowInv, TypeOK

LEMMA FlowSave == ASSUME FlowInv, SaveImage \/ EncodeFails PROVE FlowInv'
BY FlowOpenFile, FlowCannotOpenFile, FlowEncode, FlowEncodeFails DEF SaveImage

LEMMA FlowInit == Init => FlowInv
<1> SUFFICES ASSUME Init PROVE FlowInv
  OBVIOUS
<1>1. PlaceOK /\ KeyOK
  BY DEF Init, PlaceOK, Places, KeyOK
<1>2. CalcOK /\ BoundOK
  BY ScreenAssumption, BoundsAssumption, PixelsNat DEF Init, CalcOK, BoundOK
<1>3. TimerOK
  <2>1. finish_row \in 0..NoRow
    BY ScreenAssumption DEF Init, NoRow
  <2> QED BY <2>1 DEF Init, TimerOK
<1>4. FlagOK
  <2>1. save_filename \in 1..MaxNames + 1
    BY BoundsAssumption DEF Init
  <2> QED BY <2>1 DEF Init, FlagOK, BatchModes
<1>5. FileOK
  <2>1. NoFile \in File /\ 1 \in Names
    BY BoundsAssumption, PixelsNat DEF NoFile, File, Names
  <2> QED BY <2>1 DEF Init, FileOK
<1>6. StatusAt /\ FlagsAt
  BY BoundsAssumption DEF Init, StatusAt, FlagsAt, Calculating, Writing
<1> QED BY <1>1, <1>2, <1>3, <1>4, <1>5, <1>6 DEF FlowInv, TypeOK

LEMMA FlowNext == ASSUME FlowInv, [Next]_vars PROVE FlowInv'
<1>1. CASE UNCHANGED vars
  <2>1. StatusAt' /\ FlagsAt'
    BY <1>1 DEF vars, FlowInv, StatusAt, FlagsAt, calc_vars, flag_vars, bound_vars
  <2> QED BY <1>1, <2>1, Frames DEF vars, FlowInv, TypeOK
<1>2. CASE Rest
  BY <1>1, <1>2 DEF Rest
<1> QED BY <1>1, <1>2, FlowWorld, FlowCalculation, FlowMenu, FlowSave DEF Next, Program

\* Whatever the keys are, the types, the status and the flags are right at each place.
THEOREM TimedSaveTypes == Spec => []TypeOK
<1>1. Init => FlowInv
  BY FlowInit
<1>2. FlowInv /\ [Next]_vars => FlowInv'
  BY FlowNext
<1>3. FlowInv => TypeOK
  BY DEF FlowInv
<1> QED BY <1>1, <1>2, <1>3, PTL DEF Spec

-----------------------------------------------------------------------------
\* The file at work: of the image on the screen, and not whole before it is encoded.
WrittenAt ==
    /\ pc = "encode" /\ new_file => files[target] = Written(FALSE)
    /\ pc \in {"remove", "rename"} => ~new_file
    /\ pc \in Writing /\ ~new_file => id_tmp = Written(id_tmp.whole)
    /\ pc = "encode" /\ ~new_file => ~id_tmp.whole
    /\ pc = "rename" => files[target] = NoFile

WrittenInv == FlowInv /\ WrittenAt

\* Nothing but save_image touches the files, and it starts with none at work.
LEMMA WhereFilesChange == ASSUME Next, ~SaveImage, ~EncodeFails
   PROVE  /\ UNCHANGED <<files, id_tmp>>
          /\ pc' \notin Writing \/ UNCHANGED <<pc, image, done, target, new_file>>
<1>1. CASE World
  BY <1>1 DEF World, TypeKey, IntervalPasses, LibraryReadOnly, PowerFails, StartAgain, file_vars,
              calc_vars, Writing
<1>2. CASE Calculation
  BY <1>2 DEF Calculation, StartImage, CountDown, FinishPixel, KeyPressed, Peek, TakeKey, ConsumeKey,
              UngetKey, file_vars, Writing
<1>3. CASE Menu
  <2>1. CASE MenuKey
    BY <2>1 DEF MenuKey, RedrawImage, SaveByKey, RestoreImage, BrowseImage, NoCommand, file_vars, Writing
  <2>2. CASE ~MenuKey
    BY <1>3, <2>2 DEF Menu, MenuTimedSave, MenuResumesAfterSave, MenuContinues, MenuBatch, BatchFinishes,
              BatchSaves, BatchEnds, file_vars, Writing
  <2> QED BY <2>1, <2>2
<1>4. CASE Rest
  BY <1>4 DEF Rest, vars, file_vars, calc_vars
<1> QED BY <1>1, <1>2, <1>3, <1>4 DEF Next, Program

LEMMA WrittenNext == ASSUME WrittenInv, Next PROVE WrittenAt'
<1>1. CASE OpenFile
  <2>1. pc' = "encode" /\ new_file' = ~Exists(Target) /\ target' = Target /\ UNCHANGED <<image, done>>
        /\ Target \in Names
    BY <1>1, TargetIsName DEF OpenFile, calc_vars, WrittenInv, FlowInv
  <2>2. CASE Exists(Target)
    <3>1. ~new_file' /\ id_tmp' = Written(FALSE) /\ Written(FALSE)' = Written(FALSE)
      BY <1>1, <2>1, <2>2 DEF OpenFile, Written
    <3>2. ~id_tmp'.whole /\ id_tmp' = Written(id_tmp.whole)'
      BY <2>1, <3>1 DEF Written
    <3> QED BY <2>1, <3>1, <3>2 DEF WrittenAt
  <2>3. CASE ~Exists(Target)
    BY <1>1, <2>1, <2>3 DEF OpenFile, WrittenAt, Written, WrittenInv, FlowInv, TypeOK, FileOK
  <2> QED BY <2>2, <2>3
<1>2. CASE CannotOpenFile
  BY <1>2 DEF CannotOpenFile, WrittenAt, Writing
<1>3. CASE Encode
  BY <1>3 DEF Encode, WrittenAt, Writing, Written, calc_vars
<1>4. CASE RemoveFile
  BY <1>4 DEF RemoveFile, WrittenInv, FlowInv, TypeOK, FileOK, WrittenAt, Writing, Written, calc_vars
<1>5. CASE RenameFile
  BY <1>5 DEF RenameFile, WrittenAt, Writing
<1>6. CASE EncodeFails
  BY <1>6 DEF EncodeFails, RemoveTmp, WrittenInv, WrittenAt, Writing, Written, calc_vars
<1>7. CASE ~SaveImage /\ ~EncodeFails
  <2>1. CASE pc' \notin Writing
    BY <2>1 DEF WrittenAt, Writing
  <2>2. CASE pc' \in Writing
    <3>1. UNCHANGED <<files, id_tmp, pc, image, done, target, new_file>>
      BY <1>7, <2>2, WhereFilesChange
    <3> QED BY <3>1 DEF WrittenInv, WrittenAt, Written
  <2> QED BY <2>1, <2>2
<1> QED BY <1>1, <1>2, <1>3, <1>4, <1>5, <1>6, <1>7 DEF SaveImage

LEMMA WrittenStep == ASSUME WrittenInv, [Next]_vars PROVE WrittenInv'
<1>1. CASE UNCHANGED vars
  BY <1>1, FlowNext DEF vars, file_vars, calc_vars, WrittenInv, WrittenAt, Written
<1>2. CASE Next
  BY <1>2, WrittenNext, FlowNext DEF WrittenInv
<1> QED BY <1>1, <1>2

LEMMA WrittenInit == Init => WrittenInv
BY FlowInit DEF Init, WrittenInv, WrittenAt, Writing

-----------------------------------------------------------------------------
\* A batch that is about to end without an error has saved the image: no timed save comes
\* between its save and its end.
BatchAt ==
    /\ init_batch \in {"SAVE", "INTERRUPTED_SAVE"} =>
          /\ timed_save = "NONE"
          /\ pc \in {"menu", "save", "off", "exited"} \cup Writing
          /\ pc \in {"remove", "rename"} => id_tmp = Written(TRUE)
          /\ pc = "menu" /\ calc_status = "COMPLETED" => \E n \in Names : Saved(files[n])
    /\ ExitMeansSaved

LEMMA BatchNext == ASSUME WrittenInv, BatchAt, Next PROVE BatchAt'
<1> DEFINE Ends == init_batch \in {"SAVE", "INTERRUPTED_SAVE"}
<1>1. CASE World
  <2>1. CASE TypeKey \/ IntervalPasses \/ LibraryReadOnly
    BY <2>1 DEF TypeKey, IntervalPasses, LibraryReadOnly, BatchAt, ExitMeansSaved, Saved, Written,
                calc_vars, flag_vars, file_vars
  <2>2. CASE PowerFails
    BY <2>2 DEF PowerFails, BatchAt, ExitMeansSaved, flag_vars
  <2>3. CASE StartAgain
    BY <2>3 DEF StartAgain, FreshMemory, BatchAt, ExitMeansSaved
  <2> QED BY <1>1, <2>1, <2>2, <2>3 DEF World
<1>2. CASE Calculation
  <2>1. ~Ends /\ init_batch' = init_batch /\ pc' # "exited"
    BY <1>2 DEF Calculation, StartImage, CountDown, FinishPixel, KeyPressed, Peek, TakeKey, ConsumeKey,
                UngetKey, BatchAt, Writing, flag_vars
  <2> QED BY <2>1 DEF BatchAt, ExitMeansSaved
<1>3. CASE MenuTimedSave \/ MenuResumesAfterSave \/ MenuContinues \/ MenuKey
  <2>1. ~Ends /\ init_batch' = init_batch /\ pc' # "exited"
    BY <1>3 DEF MenuTimedSave, MenuResumesAfterSave, MenuContinues, MenuKey, RedrawImage, SaveByKey,
                RestoreImage, BrowseImage, NoCommand, BatchAt, flag_vars
  <2> QED BY <2>1 DEF BatchAt, ExitMeansSaved
<1>4. CASE MenuBatch
  <2>1. pc = "menu" /\ timed_save' = "NONE" /\ UNCHANGED <<image, done, calc_status, files>>
    BY <1>4 DEF MenuBatch, calc_vars, file_vars
  <2>2. CASE BatchFinishes
    BY <2>1, <2>2 DEF BatchFinishes, BatchAt, ExitMeansSaved
  <2>3. CASE BatchSaves
    BY <2>1, <2>3 DEF BatchSaves, BatchAt, ExitMeansSaved
  <2>4. CASE BatchEnds
    <3>1. pc' = "exited"
      BY <2>4 DEF BatchEnds
    <3>2. exit' = 0 => Ends /\ calc_status = "COMPLETED"
      BY <2>4 DEF BatchEnds
    <3>3. exit' = 0 => \E n \in Names : Saved(files[n])
      BY <2>1, <3>2 DEF BatchAt
    <3> QED BY <2>1, <3>1, <3>3 DEF BatchAt, ExitMeansSaved, Saved
  <2> QED BY <1>4, <2>2, <2>3, <2>4 DEF MenuBatch
<1>5. CASE SaveImage
  <2>1. pc' # "exited" /\ pc' \in {"menu"} \cup Writing /\ timed_save' = timed_save
        /\ UNCHANGED <<image, done, calc_status>>
    BY <1>5 DEF SaveImage, OpenFile, CannotOpenFile, Encode, RemoveFile, RenameFile, Writing, calc_vars,
                flag_vars
  <2>2. CASE OpenFile
    BY <2>1, <2>2 DEF OpenFile, BatchAt, ExitMeansSaved, Writing
  <2>3. CASE CannotOpenFile
    <3>1. init_batch' \notin {"SAVE", "INTERRUPTED_SAVE"}
      BY <2>3 DEF CannotOpenFile, StopMsg
    <3> QED BY <2>1, <3>1 DEF BatchAt, ExitMeansSaved
  <2>4. CASE Encode
    <3>1. CASE new_file
      <4>1. pc' = "menu" /\ init_batch' = init_batch
        BY <2>4, <3>1 DEF Encode, flag_vars
      <4>2. files'[target] = Written(TRUE) /\ target \in Names /\ target' = target
        BY <2>4, <3>1 DEF Encode, WrittenInv, FlowInv, TypeOK, FileOK
      <4>3. calc_status = "COMPLETED" => Saved(files[target])'
        BY <2>1, <2>4, <4>2 DEF Saved, Written, WrittenInv, FlowInv, StatusAt, Encode
      <4> QED BY <2>1, <4>1, <4>2, <4>3 DEF BatchAt, ExitMeansSaved
    <3>2. CASE ~new_file
      BY <2>1, <2>4, <3>2 DEF Encode, Written, BatchAt, ExitMeansSaved, Writing, flag_vars
    <3> QED BY <3>1, <3>2
  <2>5. CASE RemoveFile
    BY <2>1, <2>5 DEF RemoveFile, Written, BatchAt, ExitMeansSaved, Writing, flag_vars
  <2>6. CASE RenameFile
    <3>1. pc' = "menu" /\ init_batch' = init_batch /\ pc = "rename"
      BY <2>6 DEF RenameFile, flag_vars
    <3>2. files'[target] = id_tmp /\ target \in Names /\ target' = target
      BY <2>6 DEF RenameFile, WrittenInv, FlowInv, TypeOK, FileOK
    <3>3. Ends /\ calc_status = "COMPLETED" => Saved(files[target])'
      BY <2>1, <3>1, <3>2 DEF Saved, Written, WrittenInv, FlowInv, StatusAt, BatchAt
    <3> QED BY <2>1, <3>1, <3>2, <3>3 DEF BatchAt, ExitMeansSaved
  <2> QED BY <1>5, <2>2, <2>3, <2>4, <2>5, <2>6 DEF SaveImage
<1>6. CASE EncodeFails
  <2>1. init_batch' \notin {"SAVE", "INTERRUPTED_SAVE"} /\ pc' # "exited"
    BY <1>6 DEF EncodeFails, Interrupted
  <2> QED BY <2>1 DEF BatchAt, ExitMeansSaved
<1>7. CASE Rest
  BY <1>7 DEF Rest, vars, BatchAt, ExitMeansSaved, Saved, Written, calc_vars, flag_vars, file_vars
<1> QED BY <1>1, <1>2, <1>3, <1>4, <1>5, <1>6, <1>7 DEF Next, Program, Menu

\* A batch that ends with status 0 leaves its image behind, completed: whatever fails on the
\* way, whichever power failure it is started again after, and for every driver.
THEOREM TimedSaveBatch == Spec => []BatchInv
<1>1. Init => WrittenInv /\ BatchAt
  BY WrittenInit DEF Init, BatchAt, ExitMeansSaved
<1>2. WrittenInv /\ BatchAt /\ [Next]_vars => WrittenInv' /\ BatchAt'
  <2> SUFFICES ASSUME WrittenInv, BatchAt, [Next]_vars PROVE WrittenInv' /\ BatchAt'
    OBVIOUS
  <2>1. CASE UNCHANGED vars
    BY <2>1, WrittenStep DEF vars, BatchAt, ExitMeansSaved, Saved, Written, calc_vars, flag_vars, file_vars
  <2> QED BY <2>1, WrittenStep, BatchNext
<1>3. WrittenInv /\ BatchAt => BatchInv
  BY DEF WrittenInv, FlowInv, BatchAt, BatchInv
<1> QED BY <1>1, <1>2, <1>3, PTL DEF Spec

-----------------------------------------------------------------------------
\* While files can be created, the file of the timed saves of an image that was calculated
\* is of an earlier state of it.
Earlier(f) == f.image = image /\ f.done <= done

OwnFile == ~Overwrite /\ writable /\ started_resaves /\ timed_name # OfBefore /\ Exists(save_filename)
              => Earlier(files[save_filename])

OwnInv == WrittenInv /\ NameInv /\ OwnFile

LEMMA OwnNext == ASSUME OwnInv, Next, ~Overwrite PROVE OwnFile'
<1>0. done \in Nat
  BY PixelsNat DEF OwnInv, WrittenInv, FlowInv, TypeOK, CalcOK
<1> SUFFICES ASSUME writable', started_resaves', timed_name' # OfBefore, Exists(save_filename)'
             PROVE  Earlier(files[save_filename])'
  BY DEF OwnFile
<1>1. CASE UNCHANGED <<image, done, files, writable, started_resaves, timed_name, save_filename>>
  BY <1>1 DEF OwnInv, OwnFile, Exists, Earlier
<1>2. CASE World
  <2>1. CASE StartAgain
    BY <2>1 DEF StartAgain, FreshMemory
  <2>2. CASE ~StartAgain
    BY <1>1, <1>2, <2>2 DEF World, TypeKey, IntervalPasses, LibraryReadOnly, PowerFails, calc_vars, flag_vars,
                            file_vars
  <2> QED BY <2>1, <2>2
<1>3. CASE Calculation
  <2>1. CASE StartImage
    <3>1. CASE calc_status = "RESUMABLE"
      BY <1>1, <2>1, <3>1 DEF StartImage, file_vars
    <3>2. CASE calc_status # "RESUMABLE"
      BY <2>1, <3>2 DEF StartImage
    <3> QED BY <3>1, <3>2
  <2>2. CASE FinishPixel
    <3>1. /\ done' = done + 1 /\ pc = "orbit"
          /\ UNCHANGED <<image, files, writable, started_resaves, timed_name, save_filename>>
      BY <2>2 DEF FinishPixel, flag_vars, file_vars
    <3>2. Earlier(files[save_filename]) /\ save_filename \in Names
      BY <3>1 DEF OwnInv, OwnFile, Exists, WrittenInv, FlowInv, FlagsAt
    <3>3. files[save_filename].done \in Nat
      BY <3>2, PixelsNat DEF OwnInv, WrittenInv, FlowInv, TypeOK, FileOK, File
    <3> QED BY <1>0, <3>1, <3>2, <3>3 DEF Earlier
  <2>3. CASE CountDown \/ KeyPressed \/ TakeKey \/ ConsumeKey \/ UngetKey
    BY <1>1, <2>3 DEF CountDown, KeyPressed, TakeKey, ConsumeKey, UngetKey, calc_vars, flag_vars, file_vars
  <2> QED BY <1>3, <2>1, <2>2, <2>3 DEF Calculation
<1>4. CASE Menu
  <2>1. CASE MenuKey
    <3>1. CASE RestoreImage
      BY <3>1 DEF RestoreImage, ForgetResaves
    <3>2. CASE BrowseImage
      BY <3>2 DEF BrowseImage
    <3>3. CASE RedrawImage \/ SaveByKey \/ NoCommand
      BY <1>1, <2>1, <3>3 DEF MenuKey, RedrawImage, SaveByKey, NoCommand, file_vars
    <3> QED BY <2>1, <3>1, <3>2, <3>3 DEF MenuKey
  <2>2. CASE ~MenuKey
    BY <1>1, <1>4, <2>2 DEF Menu, MenuTimedSave, MenuResumesAfterSave, MenuContinues, MenuBatch, calc_vars,
                            flag_vars, file_vars
  <2> QED BY <2>1, <2>2
<1>5. CASE OpenFile
  <2>1. /\ Target \in Names /\ (~KeepsName => ~Exists(Target))
        /\ target' = Target /\ save_filename' = NameAfterSave /\ UNCHANGED <<image, done, writable>>
        /\ started_resaves' = (resave_flag = "STARTED")
    BY <1>5, TargetIsName DEF OpenFile, FlagsOfSave, calc_vars, OwnInv, WrittenInv, FlowInv
  <2>2. save_filename' = Target /\ resave_flag = "STARTED"
    BY <2>1 DEF NameAfterSave
  <2>3. CASE Exists(Target)
    <3>1. KeepsName /\ started_resaves /\ Target = save_filename
      BY <2>1, <2>3 DEF KeepsName, Target
    <3>2. timed_name # OfBefore /\ files' = files
      BY <1>5, <2>2, <2>3 DEF OpenFile
    <3>3. Earlier(files[Target])
      BY <1>5, <2>3, <3>1, <3>2 DEF OwnInv, OwnFile, OpenFile
    <3> QED BY <2>1, <2>2, <3>2, <3>3 DEF Earlier
  <2>4. CASE ~Exists(Target)
    <3>1. files'[Target] = Written(FALSE)
      BY <1>5, <2>1, <2>4 DEF OpenFile, OwnInv, WrittenInv, FlowInv, TypeOK, FileOK
    <3> QED BY <1>0, <2>1, <2>2, <3>1 DEF Earlier, Written
  <2> QED BY <2>3, <2>4
<1>6. CASE CannotOpenFile
  BY <1>6 DEF CannotOpenFile
<1>7. CASE Encode \/ EncodeFails
  <2>1. /\ UNCHANGED <<image, done, writable, started_resaves, timed_name, save_filename>>
        /\ \/ files' = files
           \/ files' = [files EXCEPT ![target] = Written(TRUE)]
           \/ files' = [files EXCEPT ![target] = NoFile]
    BY <1>7 DEF Encode, EncodeFails, RemoveTmp, calc_vars, flag_vars
  <2>2. CASE files'[save_filename] = files[save_filename]
    BY <2>1, <2>2 DEF OwnInv, OwnFile, Exists, Earlier
  <2>3. CASE files'[save_filename] # files[save_filename]
    <3>1. files'[save_filename] \in {Written(TRUE), NoFile}
      <4>1. save_filename \in Names
        BY <1>7, <2>1 DEF OwnInv, WrittenInv, FlowInv, FlagsAt, Encode, EncodeFails
      <4> QED BY <2>1, <2>3, <4>1 DEF OwnInv, WrittenInv, FlowInv, TypeOK, FileOK
    <3> QED BY <1>0, <2>1, <3>1 DEF Exists, Earlier, Written
  <2> QED BY <2>2, <2>3
<1>8. CASE RemoveFile
  <2>1. /\ UNCHANGED <<image, done, writable, started_resaves, timed_name, save_filename>>
        /\ files' = [files EXCEPT ![target] = NoFile]
    BY <1>8 DEF RemoveFile, calc_vars, flag_vars
  <2>2. files'[save_filename] = files[save_filename]
    BY <2>1 DEF OwnInv, WrittenInv, FlowInv, TypeOK, FileOK, Exists
  <2> QED BY <2>1, <2>2 DEF OwnInv, OwnFile, Exists, Earlier
<1>9. CASE RenameFile
  <2>1. /\ UNCHANGED <<image, done, writable, started_resaves, save_filename>>
        /\ files' = [files EXCEPT ![target] = id_tmp] /\ pc = "rename"
        /\ id_tmp.image = image /\ id_tmp.done = done
        /\ timed_name' = IF timed_name = OfBefore /\ resave_flag = "STARTED" THEN target ELSE timed_name
    <3>1. id_tmp = Written(id_tmp.whole)
      BY <1>9 DEF RenameFile, OwnInv, WrittenInv, WrittenAt, Writing
    <3>2. id_tmp.image = image /\ id_tmp.done = done
      BY <3>1 DEF Written
    <3> QED BY <1>9, <3>2 DEF RenameFile, calc_vars, flag_vars
  <2>2. CASE save_filename = target
    BY <1>0, <2>1, <2>2 DEF Earlier, OwnInv, WrittenInv, FlowInv, TypeOK, FileOK
  <2>3. CASE save_filename # target
    <3>1. files'[save_filename] = files[save_filename]
      BY <2>1, <2>3 DEF OwnInv, WrittenInv, FlowInv, TypeOK, FileOK
    <3>2. timed_name # OfBefore
      BY <2>1, <2>3 DEF OwnInv, NameInv, Writing
    <3> QED BY <2>1, <3>1, <3>2 DEF OwnInv, OwnFile, Exists, Earlier
  <2> QED BY <2>2, <2>3
<1>10. CASE Rest
  BY <1>1, <1>10 DEF Rest, vars, calc_vars, flag_vars, file_vars
<1> QED BY <1>2, <1>3, <1>4, <1>5, <1>6, <1>7, <1>8, <1>9, <1>10 DEF Next, Program, SaveImage

LEMMA OwnInit == Init => OwnInv
BY WrittenInit, NameInit DEF Init, OwnInv, OwnFile

LEMMA OwnStep == ASSUME OwnInv, [Next]_vars, ~Overwrite PROVE OwnInv'
<1>1. CASE UNCHANGED vars
  BY <1>1, WrittenStep, NameNext DEF vars, OwnInv, OwnFile, Exists, Earlier, calc_vars, flag_vars, file_vars
<1>2. CASE Next
  BY <1>2, OwnNext, WrittenStep, NameNext DEF OwnInv
<1> QED BY <1>1, <1>2

\* Only OpenFile begins to write a file.
LEMMA OpenFileBegins == ASSUME Next, pc = "save", pc' = "encode" PROVE OpenFile
BY DEF Next, World, TypeKey, IntervalPasses, LibraryReadOnly, PowerFails, StartAgain, Program,
   Calculation, StartImage, CountDown, FinishPixel, KeyPressed, TakeKey, ConsumeKey, UngetKey,
   Menu, MenuTimedSave, MenuResumesAfterSave, MenuContinues, MenuKey, MenuBatch, SaveImage,
   CannotOpenFile, Encode, RemoveFile, RenameFile, EncodeFails, Rest, vars

\* Without overwrite=yes no save replaces a file of another image, or one that shows more of this
\* image than there is, but after the image was browsed to: what g_started_resaves says of
\* g_save_filename is true of the file of that name in the library.
THEOREM TimedSaveNoForeign == ASSUME ~Overwrite PROVE Spec => NoForeignOverwrite
<1> DEFINE Kept == ForeignOverwrite => timed_name = OfBefore
<1>1. Init => OwnInv
  BY OwnInit
<1>2. OwnInv /\ [Next]_vars => OwnInv'
  BY OwnStep
<1>3. OwnInv /\ [Next]_vars => [Kept]_vars
  <2> SUFFICES ASSUME OwnInv, Next, ForeignOverwrite, timed_name # OfBefore PROVE FALSE
    OBVIOUS
  <2>1. OpenFile
    BY OpenFileBegins DEF ForeignOverwrite
  <2>2. Exists(Target) /\ NotBefore(files[Target]) /\ writable
    BY <2>1 DEF ForeignOverwrite, OpenFile
  <2>3. KeepsName
    BY <2>1, <2>2, TargetIsName DEF OpenFile, OwnInv, WrittenInv, FlowInv
  <2>4. started_resaves /\ Target = save_filename
    BY <2>3 DEF KeepsName, Target
  <2>5. Earlier(files[Target]) /\ Target \in Names
    BY <2>1, <2>2, <2>4, TargetIsName DEF OwnInv, OwnFile, OpenFile, WrittenInv, FlowInv
  <2>6. files[Target].done \in Nat /\ done \in Nat
    BY <2>5, PixelsNat DEF OwnInv, WrittenInv, FlowInv, TypeOK, CalcOK, FileOK, File
  <2> QED BY <2>2, <2>5, <2>6 DEF Earlier, NotBefore
<1>4. NoForeignOverwrite <=> [][Kept]_vars
  BY DEF NoForeignOverwrite
<1> HIDE DEF Kept
<1> QED BY <1>1, <1>2, <1>3, <1>4, PTL DEF Spec

-----------------------------------------------------------------------------
\* The greatest of some numbers of pixels is one of them.
LEMMA GreatestMember == ASSUME NEW S, S \subseteq 0..Pixels, S # {}
   PROVE  Max(S) \in S /\ \A x \in S : Max(S) >= x
<1> DEFINE T == {Pixels - x : x \in S}
<1>1. T \subseteq Nat /\ T # {}
  <2>1. \A x \in S : Pixels - x \in Nat
    BY PixelsNat
  <2>2. PICK x \in S : TRUE
    OBVIOUS
  <2> QED BY <2>1, <2>2
<1> HIDE DEF T
<1>2. PICK t \in T : \A y \in T : ~ (<<y, t>> \in OpToRel(<, Nat))
  BY <1>1, NatLessThanWellFounded, WFMin, Zenon
<1>3. \A y \in T : ~(y < t)
  BY <1>1, <1>2, Zenon DEF OpToRel
<1> USE DEF T
<1>4. PICK x \in S : t = Pixels - x
  BY DEF T
<1>5. \A y \in S : x >= y
  <2> TAKE y \in S
  <2>1. ~(Pixels - y < Pixels - x)
    BY <1>3, <1>4
  <2> QED BY <2>1, PixelsNat
<1> QED BY <1>5, Zenon DEF Max

\* A save is as good as before if each file that was written to the end has one as good.
LEMMA BestKept ==
    ASSUME TypeOK, TypeOK', NEW i,
           \A f \in WholeSaves(i) : \E g \in WholeSaves(i)' : g.done >= f.done
    PROVE  Best(i)' >= Best(i)
<1> DEFINE D  == {f.done : f \in WholeSaves(i)} \cup {0}
           D2 == {f.done : f \in WholeSaves(i)'} \cup {0}
<1>1. D \subseteq 0..Pixels /\ D # {}
  BY PixelsNat DEF TypeOK, FileOK, File, WholeSaves
<1>2. D2 \subseteq 0..Pixels /\ D2 # {}
  <2>1. \A f \in WholeSaves(i)' : f \in File
    BY DEF TypeOK, FileOK, WholeSaves, File, Names, Pixels
  <2>2. \A f \in File : f.done \in 0..Pixels
    BY DEF File
  <2> QED BY <2>1, <2>2, PixelsNat
<1>3. Best(i) = Max(D) /\ Best(i)' = Max(D2)
  BY DEF Best
<1>4. \A x \in D : \E y \in D2 : y >= x
  <2> TAKE x \in D
  <2>1. CASE x = 0
    BY <2>1, 0 \in D2
  <2>2. CASE \E f \in WholeSaves(i) : x = f.done
    BY <2>2
  <2> QED BY <2>1, <2>2
<1> HIDE DEF D, D2
<1>5. Max(D) \in D /\ Max(D2) \in D2 /\ \A y \in D2 : Max(D2) >= y
  BY <1>1, <1>2, GreatestMember
<1>6. PICK y \in D2 : y >= Max(D)
  BY <1>4, <1>5
<1>7. Max(D2) >= y /\ y \in Nat /\ Max(D) \in Nat /\ Max(D2) \in Nat
  <2>1. \A x \in 0..Pixels : x \in Nat
    BY PixelsNat
  <2>2. Max(D) \in 0..Pixels /\ Max(D2) \in 0..Pixels /\ y \in 0..Pixels
    BY <1>1, <1>2, <1>5
  <2>3. Max(D2) >= y
    BY <1>5
  <2> QED BY <2>1, <2>2, <2>3
<1>8. Max(D2) >= Max(D)
  BY <1>6, <1>7
<1> QED BY <1>3, <1>8

\* What has been saved stays saved, whenever the power fails, but in the three cases that the
\* property names: save_image removes the file only when id.tmp holds as much of the image.
THEOREM TimedSaveSurvives == Spec => SavesSurvive
<1> DEFINE Lost == \/ pc = "remove" /\ (~id_tmp.whole \/ NotBefore(files[target]))
                   \/ pc = "save" /\ id_tmp # NoFile
           Kept == \/ \A i \in 1..MaxImages : Best(i)' >= Best(i)
                   \/ pc = "remove" /\ (~id_tmp.whole \/ NotBefore(files[target]))
                   \/ pc = "save" /\ id_tmp # NoFile
<1>1. Init => WrittenInv
  BY WrittenInit
<1>2. WrittenInv /\ [Next]_vars => WrittenInv'
  BY WrittenStep
<1>3. WrittenInv /\ [Next]_vars => [Kept]_vars
  <2> SUFFICES ASSUME WrittenInv, Next, ~Lost, NEW i \in 1..MaxImages
               PROVE  \A f \in WholeSaves(i) : \E g \in WholeSaves(i)' : g.done >= f.done
    BY <1>2, BestKept DEF WrittenInv, FlowInv
  <2> HIDE DEF Lost
  <2>1. TypeOK /\ \A n \in Names : files[n] \in File /\ files[n].done \in Nat
    BY PixelsNat DEF WrittenInv, FlowInv, TypeOK, FileOK, File
  <2>2. id_tmp.done \in Nat /\ done \in Nat
    BY PixelsNat DEF WrittenInv, FlowInv, TypeOK, FileOK, CalcOK, File
  <2>3. ASSUME \A n \in Names : files[n].whole => files'[n] = files[n], id_tmp.whole => id_tmp' = id_tmp
        PROVE  \A f \in WholeSaves(i) : \E g \in WholeSaves(i)' : g.done >= f.done
    <3> SUFFICES ASSUME NEW f \in WholeSaves(i) PROVE f \in WholeSaves(i)' /\ f.done >= f.done
      OBVIOUS
    <3>1. f.whole /\ f.image = i /\ f.done \in Nat
      BY <2>1, <2>2 DEF WholeSaves
    <3>2. CASE f = id_tmp
      BY <2>3, <3>1, <3>2 DEF WholeSaves
    <3>3. CASE \E n \in Names : f = files[n]
      BY <2>3, <3>1, <3>3 DEF WholeSaves
    <3> QED BY <3>2, <3>3 DEF WholeSaves
  <2>4. CASE ~SaveImage /\ ~EncodeFails
    BY <2>3, <2>4, WhereFilesChange
  <2>5. CASE OpenFile
    <3>1. Target \in Names
      BY <2>5, TargetIsName DEF OpenFile, WrittenInv, FlowInv
    <3>2. ~NoFile.whole /\ id_tmp = NoFile
      BY <2>5 DEF OpenFile, Lost, NoFile
    <3>3. \A n \in Names : files[n].whole => files'[n] = files[n]
      BY <2>1, <2>5, <3>1, <3>2 DEF OpenFile, Exists, TypeOK, FileOK
    <3> QED BY <2>3, <3>2, <3>3
  <2>6. CASE CannotOpenFile
    BY <2>3, <2>6 DEF CannotOpenFile
  <2>7. CASE Encode \/ EncodeFails
    <3>1. CASE new_file
      <4>1. ~files[target].whole
        <5>1. files[target] = Written(FALSE)
          BY <2>7, <3>1 DEF Encode, EncodeFails, WrittenInv, WrittenAt
        <5> QED BY <5>1 DEF Written
      <4>2. id_tmp' = id_tmp /\ \A n \in Names : n # target => files'[n] = files[n]
        BY <2>1, <2>7, <3>1 DEF Encode, EncodeFails, RemoveTmp, TypeOK, FileOK
      <4> QED BY <2>3, <4>1, <4>2
    <3>2. CASE ~new_file
      <4>1. ~id_tmp.whole /\ files' = files
        BY <2>7, <3>2 DEF Encode, EncodeFails, RemoveTmp, WrittenInv, WrittenAt
      <4> QED BY <2>3, <4>1
    <3> QED BY <3>1, <3>2
  <2>8. CASE RemoveFile
    <3>1. /\ id_tmp.whole /\ files[target].image = image /\ ~(files[target].done > done)
          /\ id_tmp = Written(id_tmp.whole) /\ id_tmp' = id_tmp
          /\ \A n \in Names : n # target => files'[n] = files[n]
      BY <2>1, <2>8 DEF RemoveFile, Lost, NotBefore, WrittenInv, WrittenAt, Writing, TypeOK, FileOK
    <3>2. id_tmp.image = image /\ id_tmp.done = done
      BY <3>1 DEF Written
    <3> SUFFICES ASSUME NEW f \in WholeSaves(i) PROVE \E g \in WholeSaves(i)' : g.done >= f.done
      OBVIOUS
    <3>3. f.whole /\ f.image = i /\ f.done \in Nat
      BY <2>1, <2>2 DEF WholeSaves
    <3>4. CASE f = id_tmp
      <4>1. f \in WholeSaves(i)'
        BY <3>1, <3>3, <3>4 DEF WholeSaves
      <4> QED BY <4>1, <3>3
    <3>5. CASE f = files[target]
      <4>1. id_tmp' \in WholeSaves(i)'
        BY <3>1, <3>2, <3>3, <3>5 DEF WholeSaves
      <4>2. id_tmp'.done >= f.done
        BY <2>2, <3>1, <3>2, <3>3, <3>5
      <4> QED BY <4>1, <4>2
    <3>6. CASE \E n \in Names : n # target /\ f = files[n]
      <4>1. f \in WholeSaves(i)'
        BY <3>1, <3>3, <3>6 DEF WholeSaves
      <4> QED BY <4>1, <3>3
    <3> QED BY <3>4, <3>5, <3>6 DEF WholeSaves
  <2>9. CASE RenameFile
    <3>1. files[target] = NoFile /\ ~NoFile.whole /\ target \in Names
      BY <2>1, <2>9 DEF RenameFile, WrittenInv, WrittenAt, NoFile, TypeOK, FileOK
    <3>2. files'[target] = id_tmp /\ \A n \in Names : n # target => files'[n] = files[n]
      BY <2>1, <2>9, <3>1 DEF RenameFile, TypeOK, FileOK
    <3> SUFFICES ASSUME NEW f \in WholeSaves(i) PROVE f \in WholeSaves(i)' /\ f.done >= f.done
      OBVIOUS
    <3>3. f.whole /\ f.image = i /\ f.done \in Nat
      BY <2>1, <2>2 DEF WholeSaves
    <3>4. \E n \in Names : f = files'[n]
      BY <3>1, <3>2, <3>3 DEF WholeSaves
    <3> QED BY <3>3, <3>4 DEF WholeSaves
  <2> QED BY <2>4, <2>5, <2>6, <2>7, <2>8, <2>9 DEF SaveImage
<1>4. SavesSurvive <=> [][Kept]_vars
  BY DEF SavesSurvive
<1> HIDE DEF Kept
<1> QED BY <1>1, <1>2, <1>3, <1>4, PTL DEF Spec

=============================================================================

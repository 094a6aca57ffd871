------------------------------ MODULE Keyboard ------------------------------
(***************************************************************************)
(* The way of a key from the user interface to the BIOS: GFX_Events        *)
(* (gui/sdlmain.cpp) turns a key event into presses and releases, the      *)
(* keyboard controller (hardware/keyboard.cpp) puts their scan codes in a  *)
(* ring and, one at a time, in port 60h, and the handler of IRQ 1          *)
(* (ints/bios_keyboard.cpp) reads them and keeps the shift states.  The    *)
(* program talks to the controller meanwhile.                              *)
(*                                                                         *)
(* A scan code is a pair of a name and whether bit 7 is clear.  The pause  *)
(* key, caps lock and scroll lock are left out: no event of the Android    *)
(* user interface produces them.                                           *)
(***************************************************************************)
EXTENDS Integers, Sequences, SequencesExt

CONSTANTS
  KEYBUFSIZE,    \* entries of the ring
  Keys,          \* the keys of the user interface
  Modifiers,     \* the left keys that an event may name besides its own
  RepeatPause,   \* keyb.repeat.pause, in milliseconds
  RepeatRate,    \* keyb.repeat.rate
  Commands       \* what the program sends to the keyboard

ASSUME KeyboardAssumption ==
  /\ KEYBUFSIZE \in Nat \ {0}
  /\ RepeatPause \in Nat \ {0} /\ RepeatRate \in Nat \ {0}
  /\ Modifiers \subseteq {"leftctrl", "leftalt", "leftshift"}
  /\ Modifiers \subseteq Keys
  /\ Keys \cap {"ctrl", "alt", "e0"} = {}     \* these are the names of codes
  /\ Commands \subseteq {"leds", "rate", "other"}

VARIABLES
  buffer, used, pos,       \* keyb.buffer, keyb.used, keyb.pos
  repeat,                  \* keyb.repeat
  command,                 \* keyb.command
  p60data, p60changed,     \* port 60h and whether it waits to be read
  scheduled,               \* keyb.scheduled
  transfer,                \* KEYBOARD_TransferBuffer is in the event queue
  irq1,                    \* the line of IRQ 1
  handler,                 \* where the handler of IRQ 1 is
  al,                      \* the code it has read (Ack while it does not run)
  flags,                   \* the bits set in the BIOS flag bytes
  lost,                    \* history: a code was dropped, or seen out of turn
  down                     \* history: the keys last pressed and not released, until then

ring == <<buffer, used, pos>>
port == <<p60data, p60changed>>
history == <<lost, down>>
bios == <<handler, al, flags>>
vars == <<ring, port, repeat, bios, command, scheduled, transfer, irq1, history>>

E0  == <<"e0", FALSE>>
Ack == <<"ack", FALSE>>
Out == <<"out", TRUE>>     \* the output port, which looks like the code of a key
Free == <<"free", FALSE>>  \* abstraction: what an entry that is not used holds

Extended == [rightctrl |-> "ctrl", rightalt |-> "alt"]
Plain    == [leftctrl |-> "ctrl", leftalt |-> "alt"]

\* The switch of KEYBOARD_AddKey.
KeyCodes(key, pressed) ==
  CASE key \in DOMAIN Extended -> <<E0, <<Extended[key], pressed>>>>
    [] key \in DOMAIN Plain    -> <<<<Plain[key], pressed>>>>
    [] OTHER                   -> <<<<key, pressed>>>>

Codes == {E0, Ack, Out} \cup UNION {ToSet(KeyCodes(k, p)) : k \in Keys, p \in BOOLEAN}

Flags == {"ctrl", "lctrl", "rctrl", "alt", "lalt", "ralt", "shift", "numlock", "numdown", "e0"}

\* The codes in the ring, oldest first.
Ring == [k \in 1..used |-> buffer[(pos + k - 1) % KEYBUFSIZE]]

\* Every entry in use holds a code, so that only codes come to the port.
TypeOK ==
  /\ used \in 0..KEYBUFSIZE /\ pos \in 0..(KEYBUFSIZE - 1)
  /\ buffer \in [0..(KEYBUFSIZE - 1) -> Codes \cup {Free}]
  /\ Ring \in [1..used -> Codes]
  /\ p60data \in Codes /\ al \in Codes
  /\ p60changed \in BOOLEAN /\ scheduled \in BOOLEAN /\ transfer \in BOOLEAN
  /\ irq1 \in BOOLEAN /\ lost \in BOOLEAN
  /\ command \in {"none", "leds", "rate", "outport"}
  /\ handler \in {"none", "entry", "code"}
  /\ flags \subseteq Flags /\ down \subseteq Keys
  /\ repeat \in [key : Keys \cup {"none"}, wait : Nat]
  /\ repeat.wait > 0 => repeat.key \in Keys

-----------------------------------------------------------------------------
(* Adding codes *)

Room == KEYBUFSIZE - used

\* KEYBOARD_AddBuffer for each code in turn; once the ring is full the rest is
\* dropped.
AddBuffer(codes) ==
  LET added == IF Len(codes) <= Room THEN Len(codes) ELSE Room
      after(n) == 1 + ((n + 2 * KEYBUFSIZE - pos - used) % KEYBUFSIZE)
  IN /\ buffer' = [n \in DOMAIN buffer |-> IF after(n) <= added THEN codes[after(n)] ELSE buffer[n]]
     /\ used' = used + added
     /\ LET start == added > 0 /\ ~scheduled /\ ~p60changed
        IN scheduled' = (scheduled \/ start) /\ transfer' = (transfer \/ start)
     /\ lost' = (lost \/ added < Len(codes))

\* KEYBOARD_AddKey for a key and the left modifiers sent with it, which have one
\* code each: they go down before the key and up after it.
AddKeys(left, key, pressed) ==
  LET leftCodes == [k \in DOMAIN left |-> KeyCodes(left[k], pressed)[1]]
      keys == {key} \cup ToSet(left)
      before == IF left = <<>> THEN repeat.key ELSE Last(left)
  IN /\ AddBuffer(IF pressed THEN leftCodes \o KeyCodes(key, pressed)
                             ELSE KeyCodes(key, pressed) \o leftCodes)
     /\ down' = IF lost' THEN {} ELSE IF pressed THEN down \cup keys ELSE down \ keys
     /\ repeat' = [key  |-> IF pressed THEN key ELSE "none",
                   wait |-> IF ~pressed THEN 0 ELSE IF key = before THEN RepeatRate ELSE RepeatPause]

\* A key event of GFX_Events.
KeyEvent(key, modifiers, pressed) ==
  LET one(m) == IF m \in modifiers THEN <<m>> ELSE <<>>
  IN /\ AddKeys(one("leftctrl") \o one("leftalt") \o one("leftshift"), key, pressed)
     /\ UNCHANGED <<pos, port, bios, command, irq1>>

\* KEYBOARD_TickHandler, once in a millisecond.
Tick ==
  /\ repeat.wait > 0
  /\ IF repeat.wait = 1 THEN AddKeys(<<>>, repeat.key, TRUE)
     ELSE /\ repeat' = [repeat EXCEPT !.wait = @ - 1]
          /\ UNCHANGED <<buffer, used, scheduled, transfer, history>>
  /\ UNCHANGED <<pos, port, bios, command, irq1>>

-----------------------------------------------------------------------------
(* The controller's port *)

SetPort60(code) == p60data' = code /\ p60changed' = TRUE /\ irq1' = TRUE

\* Mutant: the flag is cleared only when a code was there.
TransferKeepsFlag ==
  /\ transfer
  /\ transfer' = FALSE
  /\ IF used = 0 THEN scheduled' = FALSE /\ UNCHANGED <<ring, port, irq1>>
     ELSE /\ SetPort60(buffer[pos])
          /\ buffer' = [buffer EXCEPT ![pos] = Free]
          /\ pos' = (pos + 1) % KEYBUFSIZE
          /\ used' = used - 1
          /\ UNCHANGED scheduled
  /\ UNCHANGED <<repeat, bios, command, history>>

\* KEYBOARD_TransferBuffer.
TransferBuffer ==
  /\ transfer
  /\ transfer' = FALSE /\ scheduled' = FALSE
  /\ IF used = 0 THEN UNCHANGED <<ring, port, irq1>>
     ELSE /\ SetPort60(buffer[pos])
          /\ buffer' = [buffer EXCEPT ![pos] = Free]
          /\ pos' = (pos + 1) % KEYBUFSIZE
          /\ used' = used - 1
  /\ UNCHANGED <<repeat, bios, command, history>>

\* Mutant: reading the port does not ask for the next code.
ReadAlone == UNCHANGED <<scheduled, transfer>>

Restart == scheduled' = (scheduled \/ used > 0) /\ transfer' = (transfer \/ (~scheduled /\ used > 0))

\* read_p60.
read_p60 == p60changed' = FALSE /\ Restart

-----------------------------------------------------------------------------
(* The program, which runs while no handler does *)

Program == handler = "none"

\* History: from here on the flags need not show the keys.
Forget(now) == lost' = (lost \/ now) /\ down' = IF lost' THEN {} ELSE down

\* KEYBOARD_ClrBuffer, then the acknowledgement of AddBuffer: the code goes to
\* the first entry, and its transfer starts unless the port waits to be read.
ClrBufferAndAck ==
  /\ buffer' = [n \in DOMAIN buffer |-> IF n = 0 THEN Ack ELSE Free]
  /\ used' = 1 /\ pos' = 0
  /\ scheduled' = ~p60changed /\ transfer' = ~p60changed
  /\ Forget(used > 0)

\* A command byte.
SendCommand(c) ==
  /\ Program /\ command = "none"
  /\ ClrBufferAndAck
  /\ command' = IF c = "other" THEN "none" ELSE c
  /\ UNCHANGED <<port, repeat, bios, irq1>>

\* The byte that belongs to a command.
SendParameter ==
  /\ Program /\ command \in {"leds", "rate"}
  /\ ClrBufferAndAck
  /\ command' = "none"
  /\ UNCHANGED <<port, repeat, bios, irq1>>

\* The byte that goes to the output port, which gates A20.
SetOutputPort ==
  /\ Program /\ command = "outport"
  /\ command' = "none"
  /\ UNCHANGED <<ring, port, repeat, bios, scheduled, transfer, irq1, history>>

\* write_p60.
write_p60 == (\E c \in Commands : SendCommand(c)) \/ SendParameter \/ SetOutputPort

\* write_p64, "Activate keyboard".
Activate ==
  /\ Program
  /\ LET start == used > 0 /\ ~scheduled /\ ~p60changed
     IN scheduled' = (scheduled \/ start) /\ transfer' = (transfer \/ start)
  /\ UNCHANGED <<ring, port, repeat, bios, command, irq1, history>>

\* write_p64, "Outport on buffer": the answer goes to port 60h whether or not a
\* code waits there, and raises IRQ 1 like a key.
OutportOnBuffer ==
  /\ Program
  /\ SetPort60(Out)
  /\ Forget(TRUE)
  /\ UNCHANGED <<ring, repeat, bios, command, scheduled, transfer>>

\* write_p64, "Write to outport".
WriteToOutport ==
  /\ Program
  /\ command' = "outport"
  /\ UNCHANGED <<ring, port, repeat, bios, scheduled, transfer, irq1, history>>

\* The program reads the port by itself.  The line stays raised, so that the
\* handler sees the code again.
Poll ==
  /\ Program
  /\ read_p60
  /\ Forget(TRUE)
  /\ UNCHANGED <<ring, p60data, repeat, bios, command, irq1>>

-----------------------------------------------------------------------------
(* The handler of IRQ 1, with interrupts off *)

TakeIrq1 ==
  /\ handler = "none" /\ irq1
  /\ irq1' = FALSE /\ handler' = "entry"
  /\ UNCHANGED <<ring, port, repeat, al, flags, command, scheduled, transfer, history>>

\* in al, 60h
ReadCode ==
  /\ handler = "entry"
  /\ read_p60
  /\ al' = p60data /\ handler' = "code"
  /\ UNCHANGED <<ring, p60data, repeat, flags, command, irq1, history>>

\* Mutant: releasing either clears the common bit.
ReleasedBoth(f, name, side, other) == f \ {side, name}

\* A key of which there are two: the prefix says which one, and the common bit
\* is clear when both are up.
Pressed(f, name, side) == f \cup {name, side}
Released(f, name, side, other) == IF other \in f THEN f \ {side} ELSE f \ {side, name}

\* The flags after a code.
AfterCode(f, code) ==
  LET right == "e0" \in f
      ctrl  == IF right THEN "rctrl" ELSE "lctrl"
      alt   == IF right THEN "ralt" ELSE "lalt"
      g == CASE code = <<"ctrl", TRUE>>       -> Pressed(f, "ctrl", ctrl)
             [] code = <<"ctrl", FALSE>>      -> Released(f, "ctrl", ctrl, IF right THEN "lctrl" ELSE "rctrl")
             [] code = <<"alt", TRUE>>        -> Pressed(f, "alt", alt)
             [] code = <<"alt", FALSE>>       -> Released(f, "alt", alt, IF right THEN "lalt" ELSE "ralt")
             [] code = <<"leftshift", TRUE>>  -> f \cup {"shift"}
             [] code = <<"leftshift", FALSE>> -> f \ {"shift"}
             [] code = <<"numlock", TRUE>>    -> f \cup {"numdown"}
             [] code = <<"numlock", FALSE>>   -> (IF "numlock" \in f THEN f \ {"numlock"} ELSE f \cup {"numlock"}) \ {"numdown"}
             [] code = E0                     -> f \cup {"e0"}
             [] OTHER                         -> f
  IN IF code = E0 THEN g ELSE g \ {"e0"}

\* IRQ1_Handler, the EOI and IRET.
HandleCode ==
  /\ handler = "code"
  /\ flags' = AfterCode(flags, al)
  /\ handler' = "none" /\ al' = Ack
  /\ UNCHANGED <<ring, port, repeat, command, scheduled, transfer, irq1, history>>

-----------------------------------------------------------------------------
Init ==
  /\ buffer = [n \in 0..(KEYBUFSIZE - 1) |-> Free] /\ used = 0 /\ pos = 0
  /\ repeat = [key |-> "none", wait |-> 0]
  /\ command = "none"
  /\ p60data = Ack /\ p60changed = FALSE
  /\ scheduled = FALSE /\ transfer = FALSE
  /\ irq1 = FALSE
  /\ handler = "none" /\ al = Ack
  /\ flags = {} /\ down = {}
  /\ lost = FALSE

KeyEvents == \E key \in Keys, pressed \in BOOLEAN, m \in SUBSET Modifiers : KeyEvent(key, m \ {key}, pressed)

Next ==
  \/ KeyEvents \/ Tick
  \/ TransferBuffer
  \/ write_p60 \/ Activate \/ OutportOnBuffer \/ WriteToOutport \/ Poll
  \/ TakeIrq1 \/ ReadCode \/ HandleCode

Spec == Init /\ [][Next]_vars

\* Events fire, and a program leaves IRQ 1 enabled and lets its handler run.
Fairness == WF_vars(TransferBuffer) /\ WF_vars(TakeIrq1) /\ WF_vars(ReadCode) /\ WF_vars(HandleCode)

FairSpec == Spec /\ Fairness

-----------------------------------------------------------------------------
(* Properties *)

\* The flag that keeps the controller from starting a second transfer tells the
\* truth, and a code in the ring is never left without something that will
\* fetch it: a transfer, or a full port whose interrupt is still to come.  No
\* order of keys, reads, commands and clearing silences the keyboard.
NothingStuck ==
  /\ scheduled = transfer
  /\ p60changed => irq1 \/ handler = "entry"
  /\ used > 0 => transfer \/ p60changed

\* The codes on their way to the flags.
InFlight ==
  (IF handler = "code" THEN <<al>> ELSE <<>>) \o (IF p60changed THEN <<p60data>> ELSE <<>>) \o Ring

\* The flags once the codes have been handled in order.
AfterCodes(f, codes) ==
  LET after[n \in 0..Len(codes)] == IF n = 0 THEN f ELSE AfterCode(after[n - 1], codes[n])
  IN after[Len(codes)]

\* The flags show that of all keys these are down.
Shows(f, keys) ==
  /\ "lctrl" \in f <=> "leftctrl" \in keys
  /\ "rctrl" \in f <=> "rightctrl" \in keys
  /\ "lalt" \in f <=> "leftalt" \in keys
  /\ "ralt" \in f <=> "rightalt" \in keys
  /\ "shift" \in f <=> "leftshift" \in keys
  /\ "numdown" \in f <=> "numlock" \in keys
  /\ "ctrl" \in f <=> ("lctrl" \in f \/ "rctrl" \in f)
  /\ "alt" \in f <=> ("lalt" \in f \/ "ralt" \in f)
  /\ "e0" \notin f

\* As long as no code was dropped, cleared or seen out of turn, the flags as
\* they will be when the codes on their way have been handled show exactly the
\* keys that are down: no shift, control or alt key sticks or is missed, the
\* left and the right key are never taken for each other, and repeating keys
\* and acknowledged commands in between make no difference.
FlagsFollowKeys == ~lost => Shows(AfterCodes(flags, InFlight), down)

\* Codes do not stay in the ring: either it is empty for good, or again and
\* again one is taken out of it, or the program sends commands for ever, each of
\* which clears the ring and starts its transfer anew.
CodesMoveOn ==
  \/ <>[](used = 0)
  \/ []<><<TransferBuffer /\ used > 0>>_vars
  \/ []<><<write_p60>>_vars

=============================================================================

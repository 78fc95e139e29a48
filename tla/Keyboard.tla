------------------------------ MODULE Keyboard ------------------------------
(***************************************************************************)
(* The keyboard driver (k-hardware.c): keyboard_readc() turns scan codes   *)
(* into characters with two static variables, and check_keyboard() acts on *)
(* some of them.  The kernel polls one scan code per exception, so codes   *)
(* wait in the keyboard controller while the user goes on typing; a soft   *)
(* reboot in between keeps the controller's codes and the driver's state.  *)
(***************************************************************************)
EXTENDS Integers, Sequences, FiniteSets

CONSTANTS
  Keys,      \* the keys of the keyboard that are used
  MAXHELD,   \* how many of them are held down at once
  MAXQUEUE   \* how many scan codes the controller stores

\* Scan codes of the keys; extended keys send 0xE0 first.
Code == [lshift |-> 42, rshift |-> 54, lctrl |-> 29, rctrl |-> 29, alt |-> 56,
         caps |-> 58, num |-> 69, a |-> 30, c |-> 46, e |-> 18, f |-> 33,
         q |-> 16, t |-> 20, digit2 |-> 3, keypad2 |-> 80, down |-> 80]

Extended == {"rctrl", "down"}

ASSUME KeyboardAssumption ==
  /\ Keys \subseteq DOMAIN Code
  /\ MAXHELD \in Nat \ {0} /\ MAXQUEUE \in Nat /\ 2 <= MAXQUEUE

ShiftKeys   == {"lshift", "rshift"}
ControlKeys == {"lctrl", "rctrl"}

VARIABLES
  modifiers,    \* static in keyboard_readc(): a set of flags
  last_escape,  \* static in keyboard_readc(): 128 after a 0xE0, else 0
  queue,        \* the controller's scan codes; each carries the key that sent
                \* it, and whether a Control key was down, which the driver
                \* cannot see
  held,         \* keys the user holds down
  ctrl,         \* the last thing the user did with a Control key was to press it
  command       \* what the last step of check_keyboard() did

vars == <<modifiers, last_escape, queue, held, ctrl, command>>

Init ==
  /\ modifiers = {} /\ last_escape = 0 /\ queue = <<>>
  /\ held = {} /\ ctrl = FALSE /\ command = "none"

-----------------------------------------------------------------------------
(* The keyboard (external) *)

Bytes(k, release) ==
  LET byte == IF release THEN Code[k] + 128 ELSE Code[k]
      Sent(b) == [byte |-> b, key |-> k, ctrl |-> ctrl]
  IN  IF k \in Extended THEN <<Sent(224), Sent(byte)>> ELSE <<Sent(byte)>>

\* Bound MAXQUEUE: the user types no faster than the controller has room for; a
\* controller that is full would drop the code.
Send(k, release) ==
  /\ command # "off"
  /\ queue' = queue \o Bytes(k, release)
  /\ Len(queue') <= MAXQUEUE
  /\ ctrl' = IF k \in ControlKeys THEN ~release ELSE ctrl
  /\ command' = "none"
  /\ UNCHANGED <<modifiers, last_escape>>

\* A key goes down, or repeats because it is held.
Press(k) ==
  /\ Send(k, FALSE)
  /\ held' = held \cup {k}
  /\ Cardinality(held') <= MAXHELD

Release(k) ==
  /\ k \in held
  /\ Send(k, TRUE)
  /\ held' = held \ {k}

-----------------------------------------------------------------------------
(* keyboard_readc() *)

Letters == {"a", "c", "e", "f", "q", "t"}

\* keymap[]: the character of a code, with 128 added after a 0xE0
keymap(n) ==
  CASE n \in {42, 54}  -> "KEY_SHIFT"
    [] n \in {29, 157} -> "KEY_CONTROL"
    [] n \in {56, 184} -> "KEY_ALT"
    [] n = 58  -> "KEY_CAPSLOCK"
    [] n = 69  -> "KEY_NUMLOCK"
    [] n = 30  -> "a"
    [] n = 46  -> "c"
    [] n = 18  -> "e"
    [] n = 33  -> "f"
    [] n = 16  -> "q"
    [] n = 20  -> "t"
    [] n = 3   -> "CKEY(1)"
    [] n = 80  -> "2"
    [] n = 208 -> "KEY_DOWN"
    [] OTHER   -> "0"

HeldFlags   == {"KEY_SHIFT", "KEY_CONTROL", "KEY_ALT"}
ToggleFlags == {"KEY_CAPSLOCK", "KEY_NUMLOCK"}

\* Mutant: the escape is forgotten for a key press.
Decoded_NoEscape(data) == keymap(IF data < 128 THEN data ELSE data - 128 + last_escape)

\* the keymap[] entry of a code that is not 0xE0
Decoded(data) == keymap((IF data < 128 THEN data ELSE data - 128) + last_escape)

\* the character that a key press returns; 0 is none
Character(ch) ==
  CASE ch \in Letters ->
         IF "KEY_CONTROL" \in modifiers THEN [kind |-> "control", ch |-> ch]
         ELSE IF ("KEY_SHIFT" \in modifiers) # ("KEY_CAPSLOCK" \in modifiers)
         THEN [kind |-> "capital", ch |-> ch]
         ELSE [kind |-> "plain", ch |-> ch]
    [] ch = "CKEY(1)" ->
         [kind |-> "plain",
          ch |-> CASE modifiers \cap {"KEY_SHIFT", "KEY_CONTROL"} = {} -> "2"
                   [] modifiers \cap {"KEY_SHIFT", "KEY_CONTROL"} = {"KEY_SHIFT"} -> "@"
                   [] OTHER -> "0"]
    [] ch = "2" -> [kind |-> "plain",
                    ch |-> IF "KEY_CONTROL" \in modifiers THEN "0" ELSE "2"]
    [] ch = "KEY_DOWN" -> [kind |-> "plain", ch |-> ch]
    [] OTHER -> [kind |-> "plain", ch |-> "0"]

\* the new value of `modifiers`
Modified(data) ==
  LET ch == Decoded(data)
  IN  CASE data >= 128 -> modifiers \ ({ch} \cap HeldFlags)
        [] data < 128 /\ ch \in HeldFlags -> modifiers \cup {ch}
        [] data < 128 /\ ch \in ToggleFlags ->
             IF ch \in modifiers THEN modifiers \ {ch} ELSE modifiers \cup {ch}
        [] OTHER -> modifiers

-----------------------------------------------------------------------------
(* check_keyboard() *)

Action(char) ==
  CASE char.kind = "plain" /\ char.ch = "a" -> "allocator"
    [] char.kind = "plain" /\ char.ch = "f" -> "fork"
    [] char.kind = "plain" /\ char.ch = "e" -> "forkexit"
    [] char.kind = "plain" /\ char.ch = "t" -> "test"
    [] char.kind = "plain" /\ char.ch = "2" -> "test2"
    [] char.kind = "plain" /\ char.ch = "q" -> "off"
    [] char.kind = "control" /\ char.ch = "c" -> "off"
    [] OTHER -> "none"

\* Mutant: the escape is not forgotten after the code that follows it.
Poll_KeepsEscape ==
  LET data == Head(queue).byte
  IN  /\ queue # <<>> /\ command # "off"
      /\ queue' = Tail(queue)
      /\ last_escape' = IF data = 224 THEN 128 ELSE last_escape
      /\ modifiers' = IF data = 224 THEN modifiers ELSE Modified(data)
      /\ command' = IF data >= 128 THEN "none" ELSE Action(Character(Decoded(data)))
      /\ UNCHANGED <<held, ctrl>>

\* One poll of the kernel: a soft reboot and power off end it, but the static
\* variables have been written before.
Poll ==
  LET data == Head(queue).byte
  IN  /\ queue # <<>> /\ command # "off"
      /\ queue' = Tail(queue)
      /\ last_escape' = IF data = 224 THEN 128 ELSE 0
      /\ modifiers' = IF data = 224 THEN modifiers ELSE Modified(data)
      /\ command' = IF data >= 128 THEN "none" ELSE Action(Character(Decoded(data)))
      /\ UNCHANGED <<held, ctrl>>

Off == command = "off" /\ UNCHANGED vars

Next == (\E k \in Keys : Press(k) \/ Release(k)) \/ Poll \/ Off

\* Every exception polls the keyboard, the timer's included, and so do the
\* loops of schedule() and fail().
Spec == Init /\ [][Next]_vars /\ WF_vars(Poll)

-----------------------------------------------------------------------------
(* Properties *)

\* Once the driver has read everything, a Shift or Control flag is set only if
\* one of its keys is down: no sequence of keys, extended keys between them
\* included, leaves a modifier behind.
NoStuckModifier ==
  queue = <<>> =>
    /\ "KEY_SHIFT" \in modifiers => held \cap ShiftKeys # {}
    /\ "KEY_CONTROL" \in modifiers => held \cap ControlKeys # {}
    /\ "KEY_ALT" \in modifiers => "alt" \in held

\* the keys a user can mean each command with
Meant ==
  [none |-> Keys, allocator |-> {"a"}, fork |-> {"f"}, forkexit |-> {"e"},
   test |-> {"t"}, test2 |-> {"digit2", "keypad2"}, off |-> {"q", "c"}]

\* A reboot or power off comes from a press of the key check_keyboard() names
\* for it, never from a release, a modifier or an extended key with the same
\* code, and power off from C only if Control was down when it was pressed.
CommandsMeant ==
  [][command' # "none" /\ command # "off" =>
       /\ Head(queue).key \in Meant[command']
       /\ command' = "off" /\ Head(queue).key = "c" => Head(queue).ctrl]_vars

\* "If Control-C was typed, exit the virtual machine" (schedule() and
\* exception()): a C pressed while Control is down reaches the kernel as
\* Control-C however far behind the driver is, if no other Control key has
\* been released since.
ControlCExits ==
  (\E i \in DOMAIN queue :
     queue[i].byte = Code["c"] /\ queue[i].key = "c" /\ queue[i].ctrl)
    ~> command = "off"

-----------------------------------------------------------------------------
(* The inductive invariant behind NoStuckModifier and CommandsMeant *)

\* the keymap[] entry that is meant for key k
Meaning(k) == keymap(Code[k] + IF k \in Extended THEN 128 ELSE 0)

\* the i-th code of q is one that keyboard_readc() decodes to flag, pressed
\* or released
About(q, i, flag)   == q[i].byte # 224 /\ Meaning(q[i].key) = flag
Presses(q, i, flag) == About(q, i, flag) /\ q[i].byte < 128

\* Whether flag, in m now, will be set when the first n codes of q are read.
WillBeSet(q, m, flag, n) ==
  \/ flag \in m /\ \A i \in 1 .. n : ~About(q, i, flag)
  \/ \E i \in 1 .. n : Presses(q, i, flag) /\ \A j \in i + 1 .. n : ~About(q, j, flag)

ScanCodes == [byte : 0 .. 255, key : Keys, ctrl : BOOLEAN]

KeyboardTypeOK ==
  /\ queue \in Seq(ScanCodes)
  /\ modifiers \subseteq HeldFlags \cup ToggleFlags
  /\ last_escape \in {0, 128}
  /\ held \subseteq Keys
  /\ ctrl \in BOOLEAN
  /\ command \in DOMAIN Meant

\* every code in the controller is a code of its key
CodesSent ==
  \A i \in DOMAIN queue :
    \/ queue[i].byte \in {Code[queue[i].key], Code[queue[i].key] + 128}
    \/ queue[i].byte = 224 /\ queue[i].key \in Extended

\* the driver has read a 0xE0 exactly if the code after it is the next one
EscapesPaired ==
  /\ queue = <<>> => last_escape = 0
  /\ \A i \in DOMAIN queue :
       queue[i].byte = 224 => i + 1 \in DOMAIN queue /\ queue[i + 1].byte # 224
  /\ \A i \in DOMAIN queue :
       queue[i].byte # 224 =>
         (queue[i].key \in Extended
            <=> IF i = 1 THEN last_escape = 128 ELSE queue[i - 1].byte = 224)
  /\ queue # <<>> /\ queue[1].byte = 224 => last_escape = 0

\* a flag that will be set has a key that is down now
FlagsHeld ==
  \A flag \in HeldFlags :
    WillBeSet(queue, modifiers, flag, Len(queue)) => \E k \in held : Meaning(k) = flag

\* the driver will know of Control what the user did
ControlSeen ==
  /\ ctrl = WillBeSet(queue, modifiers, "KEY_CONTROL", Len(queue))
  /\ \A i \in DOMAIN queue :
       queue[i].ctrl = WillBeSet(queue, modifiers, "KEY_CONTROL", i - 1)

\* Whatever is still waiting in the controller, the driver's two variables and
\* the codes to come add up to the keys that are down and to what the user had
\* done with Control when each code was sent.
KInv ==
  /\ KeyboardTypeOK
  /\ CodesSent
  /\ EscapesPaired
  /\ FlagsHeld
  /\ ControlSeen
=============================================================================

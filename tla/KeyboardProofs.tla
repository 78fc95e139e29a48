--------------------------- MODULE KeyboardProofs ---------------------------
(***************************************************************************)
(* The keyboard driver never loses track: for every set of keys and every  *)
(* size of the controller's queue, its flags and the codes still waiting   *)
(* add up to the keys that are down, and check_keyboard() acts on a key    *)
(* only as the user meant it.                                              *)
(***************************************************************************)
EXTENDS Keyboard, TLAPS

\* A leaf is Zenon's unless it names SMT, as the ones with arithmetic do.
USE ZenonT(20)

-----------------------------------------------------------------------------
(* The scan codes of the keys *)

\* The names of the keys.
LEMMA KeyNames ==
  DOMAIN Code = {"lshift", "rshift", "lctrl", "rctrl", "alt", "caps", "num", "a",
                 "c", "e", "f", "q", "t", "digit2", "keypad2", "down"}
  BY DEF Code

\* No code of a key, pressed or released, is 0xE0.
LEMMA KeyCodes ==
  ASSUME NEW k \in DOMAIN Code
  PROVE  Code[k] \in 1 .. 95
  BY SMTT(20), KeyNames DEF Code

\* What each key means to the driver.
LEMMA KeyMeanings ==
  /\ Meaning("lshift") = "KEY_SHIFT" /\ Meaning("rshift") = "KEY_SHIFT"
  /\ Meaning("lctrl") = "KEY_CONTROL" /\ Meaning("rctrl") = "KEY_CONTROL"
  /\ Meaning("alt") = "KEY_ALT" /\ Meaning("caps") = "KEY_CAPSLOCK"
  /\ Meaning("num") = "KEY_NUMLOCK" /\ Meaning("a") = "a" /\ Meaning("c") = "c"
  /\ Meaning("e") = "e" /\ Meaning("f") = "f" /\ Meaning("q") = "q"
  /\ Meaning("t") = "t" /\ Meaning("digit2") = "CKEY(1)"
  /\ Meaning("keypad2") = "2" /\ Meaning("down") = "KEY_DOWN"
<1>1. /\ Code["lshift"] = 42 /\ Code["rshift"] = 54 /\ Code["lctrl"] = 29
      /\ Code["rctrl"] = 29 /\ Code["alt"] = 56 /\ Code["caps"] = 58
      /\ Code["num"] = 69 /\ Code["a"] = 30 /\ Code["c"] = 46 /\ Code["e"] = 18
      /\ Code["f"] = 33 /\ Code["q"] = 16 /\ Code["t"] = 20
      /\ Code["digit2"] = 3 /\ Code["keypad2"] = 80 /\ Code["down"] = 80
  BY DEF Code
<1>2. Meaning("lshift") = "KEY_SHIFT" /\ Meaning("rshift") = "KEY_SHIFT"
  BY SMTT(20), <1>1 DEF Meaning, keymap, Extended
<1>3. Meaning("lctrl") = "KEY_CONTROL" /\ Meaning("rctrl") = "KEY_CONTROL"
  BY SMTT(20), <1>1 DEF Meaning, keymap, Extended
<1>4. Meaning("alt") = "KEY_ALT" /\ Meaning("caps") = "KEY_CAPSLOCK"
  BY SMTT(20), <1>1 DEF Meaning, keymap, Extended
<1>5. Meaning("num") = "KEY_NUMLOCK" /\ Meaning("a") = "a" /\ Meaning("c") = "c"
  BY SMTT(20), <1>1 DEF Meaning, keymap, Extended
<1>6. Meaning("e") = "e" /\ Meaning("f") = "f" /\ Meaning("q") = "q"
  BY SMTT(20), <1>1 DEF Meaning, keymap, Extended
<1>7. Meaning("t") = "t" /\ Meaning("digit2") = "CKEY(1)"
  BY SMTT(20), <1>1 DEF Meaning, keymap, Extended
<1>8. Meaning("keypad2") = "2" /\ Meaning("down") = "KEY_DOWN"
  BY SMTT(20), <1>1 DEF Meaning, keymap, Extended
<1>9. QED
  BY <1>2, <1>3, <1>4, <1>5, <1>6, <1>7, <1>8

\* The keys that mean something to a modifier or to check_keyboard().
LEMMA MeaningKeys ==
  ASSUME NEW k \in DOMAIN Code
  PROVE  /\ Meaning(k) = "KEY_SHIFT" => k \in ShiftKeys
         /\ Meaning(k) = "KEY_CONTROL" <=> k \in ControlKeys
         /\ Meaning(k) = "KEY_ALT" => k = "alt"
         /\ Meaning(k) \in Letters => k = Meaning(k)
         /\ Meaning(k) = "CKEY(1)" => k = "digit2"
         /\ Meaning(k) = "2" => k = "keypad2"
  BY KeyNames, KeyMeanings DEF ShiftKeys, ControlKeys, Letters

-----------------------------------------------------------------------------
(* What the codes in the controller will do to a flag *)

\* Only the codes that are read count.
LEMMA WillBeSetPrefix ==
  ASSUME NEW q, NEW r, NEW m, NEW flag, NEW n \in Nat,
         \A i \in 1 .. n : q[i] = r[i]
  PROVE  WillBeSet(q, m, flag, n) = WillBeSet(r, m, flag, n)
<1>1. \A i \in 1 .. n : /\ About(q, i, flag) <=> About(r, i, flag)
                        /\ Presses(q, i, flag) <=> Presses(r, i, flag)
  BY SMTT(20) DEF About, Presses
<1>2. \A i \in 1 .. n : \A j \in i + 1 .. n : j \in 1 .. n
  BY SMTT(20)
<1> HIDE DEF About, Presses
<1>3. WillBeSet(q, m, flag, n) <=> WillBeSet(r, m, flag, n)
  BY <1>1, <1>2 DEF WillBeSet
<1>4. QED
  BY <1>3 DEF WillBeSet

\* One more code sets the flag, clears it or leaves it alone.
LEMMA WillBeSetNext ==
  ASSUME NEW q, NEW m, NEW flag, NEW n \in Nat
  PROVE  WillBeSet(q, m, flag, n + 1) <=>
           IF About(q, n + 1, flag) THEN q[n + 1].byte < 128
           ELSE WillBeSet(q, m, flag, n)
<1>1. \A i : i \in 1 .. n + 1 <=> i \in 1 .. n \/ i = n + 1
  BY SMTT(20)
<1>2. \A i \in 1 .. n : n + 1 \in i + 1 .. n + 1
                        /\ \A j : j \in i + 1 .. n + 1 <=> j \in i + 1 .. n \/ j = n + 1
  BY SMTT(20)
<1>3. \A j : j \notin n + 1 + 1 .. n + 1
  BY SMTT(20)
<1>4. CASE About(q, n + 1, flag)
  <2>1. WillBeSet(q, m, flag, n + 1) <=> Presses(q, n + 1, flag)
    BY <1>1, <1>2, <1>3, <1>4 DEF WillBeSet
  <2>2. QED
    BY <2>1, <1>4 DEF Presses
<1>5. CASE ~About(q, n + 1, flag)
  <2>1. ~Presses(q, n + 1, flag)
    BY <1>5 DEF Presses
  <2>2. WillBeSet(q, m, flag, n + 1) <=> WillBeSet(q, m, flag, n)
    BY <1>1, <1>2, <1>5, <2>1 DEF WillBeSet
  <2>3. QED
    BY <2>2, <1>5
<1>6. QED
  BY <1>4, <1>5

\* Reading the first code does what it was counted to do.
LEMMA WillBeSetTail ==
  ASSUME NEW q, NEW r, NEW m, NEW new, NEW flag, NEW n \in Nat,
         \A i \in 1 .. n : r[i] = q[i + 1],
         flag \in new <=> IF About(q, 1, flag) THEN q[1].byte < 128 ELSE flag \in m
  PROVE  WillBeSet(r, new, flag, n) <=> WillBeSet(q, m, flag, n + 1)
<1>1. \A i \in 1 .. n : /\ About(r, i, flag) <=> About(q, i + 1, flag)
                        /\ Presses(r, i, flag) <=> Presses(q, i + 1, flag)
  BY SMTT(20) DEF About, Presses
<1>2. ASSUME WillBeSet(r, new, flag, n) PROVE WillBeSet(q, m, flag, n + 1)
  <2>1. CASE flag \in new /\ \A i \in 1 .. n : ~About(r, i, flag)
    <3>1. \A i \in 2 .. n + 1 : ~About(q, i, flag)
      <4> SUFFICES ASSUME NEW i \in 2 .. n + 1 PROVE ~About(q, i, flag)
        OBVIOUS
      <4>1. i - 1 \in 1 .. n /\ (i - 1) + 1 = i
        BY SMTT(20)
      <4>2. QED
        BY <4>1, <2>1, <1>1
    <3>2. CASE About(q, 1, flag)
      <4>1. Presses(q, 1, flag) /\ 1 \in 1 .. n + 1 /\ 1 + 1 = 2
        BY SMTT(20), <3>2, <2>1 DEF Presses
      <4>2. QED
        BY <4>1, <3>1 DEF WillBeSet
    <3>3. CASE ~About(q, 1, flag)
      <4>1. \A i \in 1 .. n + 1 : i = 1 \/ i \in 2 .. n + 1
        BY SMTT(20)
      <4>2. QED
        BY <4>1, <3>1, <3>3, <2>1 DEF WillBeSet
    <3>4. QED
      BY <3>2, <3>3
  <2>2. ASSUME NEW i \in 1 .. n, Presses(r, i, flag), \A j \in i + 1 .. n : ~About(r, j, flag)
        PROVE  WillBeSet(q, m, flag, n + 1)
    <3>1. i + 1 \in 1 .. n + 1 /\ Presses(q, i + 1, flag)
      BY SMTT(20), <2>2, <1>1
    <3>2. ASSUME NEW j \in (i + 1) + 1 .. n + 1 PROVE ~About(q, j, flag)
      <4>1. j - 1 \in i + 1 .. n /\ j - 1 \in 1 .. n /\ (j - 1) + 1 = j
        BY SMTT(20)
      <4>2. QED
        BY <4>1, <2>2, <1>1
    <3>3. QED
      BY <3>1, <3>2 DEF WillBeSet
  <2>3. QED
    BY <1>2, <2>1, <2>2 DEF WillBeSet
<1>3. ASSUME WillBeSet(q, m, flag, n + 1) PROVE WillBeSet(r, new, flag, n)
  <2>1. CASE flag \in m /\ \A i \in 1 .. n + 1 : ~About(q, i, flag)
    <3>1. 1 \in 1 .. n + 1 /\ \A i \in 1 .. n : i + 1 \in 1 .. n + 1
      BY SMTT(20)
    <3>2. QED
      BY <3>1, <2>1, <1>1 DEF WillBeSet
  <2>2. ASSUME NEW i \in 1 .. n + 1, Presses(q, i, flag),
               \A j \in i + 1 .. n + 1 : ~About(q, j, flag)
        PROVE  WillBeSet(r, new, flag, n)
    <3>1. CASE i = 1
      <4>1. flag \in new
        BY <3>1, <2>2 DEF Presses
      <4>2. \A j \in 1 .. n : j + 1 \in i + 1 .. n + 1
        BY SMTT(20), <3>1
      <4>3. QED
        BY <4>1, <4>2, <2>2, <1>1 DEF WillBeSet
    <3>2. CASE i # 1
      <4>1. i - 1 \in 1 .. n /\ (i - 1) + 1 = i
        BY SMTT(20), <3>2
      <4>2. Presses(r, i - 1, flag)
        BY <4>1, <2>2, <1>1
      <4>3. ASSUME NEW j \in (i - 1) + 1 .. n PROVE ~About(r, j, flag)
        <5>1. j \in 1 .. n /\ j + 1 \in i + 1 .. n + 1
          BY SMTT(20), <4>1
        <5>2. QED
          BY <5>1, <2>2, <1>1
      <4>4. QED
        BY <4>1, <4>2, <4>3 DEF WillBeSet
    <3>3. QED
      BY <3>1, <3>2
  <2>3. QED
    BY <1>3, <2>1, <2>2 DEF WillBeSet
<1>4. QED
  BY <1>2, <1>3

-----------------------------------------------------------------------------
(* The user's steps *)

\* The code a key sends besides 0xE0.
Final(k, release) == [byte |-> IF release THEN Code[k] + 128 ELSE Code[k],
                      key |-> k, ctrl |-> ctrl]
Escape(k) == [byte |-> 224, key |-> k, ctrl |-> ctrl]

\* The codes of a key are appended to the ones that wait.
LEMMA Appended ==
  ASSUME KInv, NEW k \in Keys, NEW release \in BOOLEAN, Send(k, release)
  PROVE  /\ Final(k, release) \in ScanCodes /\ Escape(k) \in ScanCodes
         /\ queue' \in Seq(ScanCodes)
         /\ \A i \in 1 .. Len(queue) : queue'[i] = queue[i]
         /\ k \notin Extended => /\ Len(queue') = Len(queue) + 1
                                 /\ queue'[Len(queue) + 1] = Final(k, release)
         /\ k \in Extended => /\ Len(queue') = Len(queue) + 2
                              /\ queue'[Len(queue) + 1] = Escape(k)
                              /\ queue'[Len(queue) + 2] = Final(k, release)
<1>1. Code[k] \in 1 .. 95
  BY KeyboardAssumption, KeyCodes
<1>2. queue \in Seq(ScanCodes) /\ ctrl \in BOOLEAN
  BY DEF KInv, KeyboardTypeOK
<1>3. Final(k, release) \in ScanCodes /\ Escape(k) \in ScanCodes
  <2>1. (IF release THEN Code[k] + 128 ELSE Code[k]) \in 0 .. 255 /\ 224 \in 0 .. 255
    BY SMTT(20), <1>1
  <2>2. QED
    BY <2>1, <1>2 DEF Final, Escape, ScanCodes
<1>4. queue' = queue \o (IF k \in Extended THEN <<Escape(k), Final(k, release)>>
                         ELSE <<Final(k, release)>>)
  BY DEF Send, Bytes, Final, Escape
<1>5. CASE k \in Extended
  <2>1. queue' = queue \o <<Escape(k), Final(k, release)>>
    BY <1>4, <1>5
  <2> HIDE DEF Final, Escape
  <2>2. QED
    BY SMTT(20), <2>1, <1>2, <1>3, <1>5
<1>6. CASE k \notin Extended
  <2>1. queue' = queue \o <<Final(k, release)>>
    BY <1>4, <1>6
  <2> HIDE DEF Final
  <2>2. QED
    BY SMTT(20), <2>1, <1>2, <1>3, <1>6
<1>7. QED
  BY <1>5, <1>6

\* A key decides about its own flag and about no other.
LEMMA SendSets ==
  ASSUME KInv, NEW k \in Keys, NEW release \in BOOLEAN, Send(k, release), NEW flag
  PROVE  WillBeSet(queue', modifiers, flag, Len(queue')) <=>
           IF Meaning(k) = flag THEN ~release
           ELSE WillBeSet(queue, modifiers, flag, Len(queue))
<1> DEFINE n == Len(queue)
<1>1. n \in Nat /\ n + 1 \in Nat /\ (n + 1) + 1 = n + 2
  BY SMTT(20) DEF KInv, KeyboardTypeOK
<1>2. Code[k] \in 1 .. 95
  BY KeyboardAssumption, KeyCodes
<1>3. WillBeSet(queue', modifiers, flag, n) = WillBeSet(queue, modifiers, flag, n)
  BY SMTT(20), <1>1, Appended, WillBeSetPrefix
<1>4. ASSUME NEW i, queue'[i] = Final(k, release)
      PROVE  /\ About(queue', i, flag) <=> Meaning(k) = flag
             /\ queue'[i].byte < 128 <=> ~release
  BY SMTT(20), <1>2, <1>4 DEF Final, About
<1>5. CASE k \notin Extended
  <2>1. Len(queue') = n + 1 /\ queue'[n + 1] = Final(k, release)
    BY <1>5, Appended
  <2>2. WillBeSet(queue', modifiers, flag, n + 1) <=>
          IF About(queue', n + 1, flag) THEN queue'[n + 1].byte < 128
          ELSE WillBeSet(queue', modifiers, flag, n)
    BY <1>1, WillBeSetNext
  <2>3. QED
    BY <2>1, <2>2, <1>3, <1>4
<1>6. CASE k \in Extended
  <2>1. /\ Len(queue') = n + 2 /\ queue'[n + 1] = Escape(k)
        /\ queue'[n + 2] = Final(k, release)
    BY <1>6, Appended
  <2>2. ~About(queue', n + 1, flag)
    BY SMTT(20), <2>1 DEF About, Escape
  <2>3. WillBeSet(queue', modifiers, flag, n + 1) <=>
          IF About(queue', n + 1, flag) THEN queue'[n + 1].byte < 128
          ELSE WillBeSet(queue', modifiers, flag, n)
    BY <1>1, WillBeSetNext
  <2>4. WillBeSet(queue', modifiers, flag, n + 2) <=>
          IF About(queue', n + 2, flag) THEN queue'[n + 2].byte < 128
          ELSE WillBeSet(queue', modifiers, flag, n + 1)
    BY <1>1, WillBeSetNext
  <2>5. QED
    BY <2>1, <2>2, <2>3, <2>4, <1>3, <1>4
<1>7. QED
  BY <1>5, <1>6

\* Sending the codes of a key keeps everything but what is said of `held`.
LEMMA SendStep ==
  ASSUME KInv, NEW k \in Keys, NEW release \in BOOLEAN, Send(k, release),
         held' \subseteq Keys
  PROVE  KeyboardTypeOK' /\ CodesSent' /\ EscapesPaired' /\ ControlSeen'
<1>n. PICK n \in Nat : n = Len(queue)
  BY SMTT(20) DEF KInv, KeyboardTypeOK
<1>t. /\ queue \in Seq(ScanCodes) /\ ctrl \in BOOLEAN /\ n \in Nat
      /\ DOMAIN queue = 1 .. n /\ queue' \in Seq(ScanCodes)
      /\ Len(queue') \in Nat /\ DOMAIN queue' = 1 .. Len(queue')
  BY SMTT(20), <1>n, Appended DEF KInv, KeyboardTypeOK
<1>k. k \in DOMAIN Code /\ Code[k] \in 1 .. 95
  BY KeyboardAssumption, KeyCodes
<1>s. /\ ctrl' = IF k \in ControlKeys THEN ~release ELSE ctrl
      /\ command' = "none" /\ modifiers' = modifiers /\ last_escape' = last_escape
  BY DEF Send
<1>c. WillBeSet(queue, modifiers, "KEY_CONTROL", n) = ctrl
  BY <1>n DEF KInv, ControlSeen
<1>f. /\ Final(k, release).key = k /\ Final(k, release).ctrl = ctrl
      /\ Final(k, release).byte \in {Code[k], Code[k] + 128}
      /\ Final(k, release).byte # 224
      /\ Escape(k).key = k /\ Escape(k).ctrl = ctrl /\ Escape(k).byte = 224
  BY SMTT(20), <1>k DEF Final, Escape
<1>1. KeyboardTypeOK'
  <2>1. "none" \in DOMAIN Meant
    BY DEF Meant
  <2>2. ctrl' \in BOOLEAN
    BY <1>s, <1>t
  <2>3. DOMAIN Meant' = DOMAIN Meant
    OBVIOUS
  <2>4. QED
    BY <2>1, <2>2, <1>s, <1>t DEF KInv, KeyboardTypeOK
<1>x. \/ /\ k \notin Extended /\ Len(queue') = n + 1
         /\ queue'[n + 1] = Final(k, release)
      \/ /\ k \in Extended /\ Len(queue') = n + 2
         /\ queue'[n + 1] = Escape(k) /\ queue'[n + 2] = Final(k, release)
  BY <1>n, Appended
<1>y. \A i \in 1 .. n : queue'[i] = queue[i]
  BY <1>n, Appended
<1> HIDE DEF Final, Escape
<1>d. /\ \A i \in DOMAIN queue' : i \in 1 .. n \/ i = n + 1 \/ (i = n + 2 /\ k \in Extended)
      /\ \A i \in 1 .. n + 1 : i \in DOMAIN queue'
      /\ k \in Extended => n + 2 \in DOMAIN queue'
  <2>1. DOMAIN queue' = 1 .. Len(queue')
    BY <1>t
  <2>2. CASE k \in Extended
    <3>1. Len(queue') = n + 2
      BY <2>2, <1>x
    <3>2. QED
      BY SMTT(20), <2>1, <2>2, <3>1
  <2>3. CASE k \notin Extended
    <3>1. Len(queue') = n + 1
      BY <2>3, <1>x
    <3>2. QED
      BY SMTT(20), <2>1, <2>3, <3>1
  <2>4. QED
    BY <2>2, <2>3
<1>2. CodesSent'
  <2> SUFFICES ASSUME NEW i \in DOMAIN queue'
               PROVE  \/ queue'[i].byte \in {Code[queue'[i].key], Code[queue'[i].key] + 128}
                      \/ queue'[i].byte = 224 /\ queue'[i].key \in Extended
    BY DEF CodesSent
  <2>1. CASE i \in 1 .. n
    BY SMTT(20), <2>1, <1>t, <1>y DEF KInv, CodesSent
  <2>2. CASE i \notin 1 .. n
    BY SMTT(20), <2>2, <1>d, <1>f, <1>x
  <2>3. QED
    BY <2>1, <2>2
<1>3. EscapesPaired'
  <2>e. EscapesPaired
    BY DEF KInv
  <2>1. queue' # <<>>
    <3>1. Len(queue') # 0
      BY SMTT(20), <1>n, <1>x
    <3>2. QED
      BY SMTT(20), <3>1
  <2>2. ASSUME NEW i \in DOMAIN queue', queue'[i].byte = 224
        PROVE  i + 1 \in DOMAIN queue' /\ queue'[i + 1].byte # 224
    <3>1. CASE i \in 1 .. n
      <4>1. i + 1 \in 1 .. n /\ queue[i + 1].byte # 224
        BY SMTT(20), <3>1, <2>2, <2>e, <1>t, <1>y DEF EscapesPaired
      <4>2. QED
        BY SMTT(20), <4>1, <1>t, <1>x, <1>y
    <3>2. CASE i \notin 1 .. n
      <4>1. i = n + 1 \/ (i = n + 2 /\ k \in Extended)
        BY <3>2, <1>d
      <4>2. k \in Extended /\ i = n + 1
        BY SMTT(20), <4>1, <2>2, <1>x, <1>f
      <4>3. i + 1 = n + 2
        BY SMTT(20), <4>2
      <4>4. QED
        BY SMTT(20), <4>2, <4>3, <1>d, <1>x, <1>f
    <3>3. QED
      BY <3>1, <3>2
  <2>3. ASSUME NEW i \in DOMAIN queue', queue'[i].byte # 224
        PROVE  queue'[i].key \in Extended
                 <=> IF i = 1 THEN last_escape = 128 ELSE queue'[i - 1].byte = 224
    <3>1. CASE i \in 1 .. n
      <4>1. i = 1 \/ i - 1 \in 1 .. n
        BY SMTT(20), <3>1, <1>t
      <4>2. queue[i].key \in Extended
              <=> IF i = 1 THEN last_escape = 128 ELSE queue[i - 1].byte = 224
        BY SMTT(20), <3>1, <2>3, <2>e, <1>t, <1>y DEF EscapesPaired
      <4>3. QED
        BY SMTT(20), <4>1, <4>2, <3>1, <1>y
    <3>2. CASE i = n + 1 /\ n = 0
      <4>1. last_escape = 0 /\ k \notin Extended /\ queue'[i].key = k
        BY SMTT(20), <3>2, <2>3, <2>e, <1>t, <1>x, <1>n, <1>f DEF EscapesPaired
      <4>2. QED
        BY SMTT(20), <4>1, <3>2
    <3>3. CASE i = n + 1 /\ n # 0
      <4>1. k \notin Extended /\ queue'[i].key = k
        BY <3>3, <2>3, <1>x, <1>f
      <4>2. n \in 1 .. n /\ n + 1 \notin 1 .. n /\ i - 1 = n /\ i # 1
        BY SMTT(20), <3>3, <1>t
      <4>3. queue[n].byte # 224
        <5>1. n \in DOMAIN queue /\ n + 1 \notin DOMAIN queue
          BY <4>2, <1>t
        <5>2. QED
          BY SMTT(20), <5>1, <2>e DEF EscapesPaired
      <4>4. QED
        BY SMTT(20), <4>1, <4>2, <4>3, <1>y
    <3>4. CASE i = n + 2 /\ k \in Extended
      <4>1. queue'[i].key = k /\ queue'[n + 1].byte = 224
        BY <3>4, <1>x, <1>f
      <4>2. i - 1 = n + 1 /\ i # 1
        BY SMTT(20), <3>4, <1>n
      <4>3. QED
        BY <4>1, <4>2, <3>4
    <3>5. QED
      BY <3>1, <3>2, <3>3, <3>4, <1>d
  <2>4. ASSUME queue'[1].byte = 224 PROVE last_escape = 0
    <3>1. CASE n = 0
      BY SMTT(20), <3>1, <2>e, <1>n, <1>t DEF EscapesPaired
    <3>2. CASE n # 0
      <4>1. 1 \in 1 .. n /\ queue # <<>>
        BY SMTT(20), <3>2, <1>n, <1>t
      <4>2. QED
        BY SMTT(20), <4>1, <2>4, <2>e, <1>y DEF EscapesPaired
    <3>3. QED
      BY <3>1, <3>2
  <2>5. QED
    BY SMTT(20), <2>1, <2>2, <2>3, <2>4, <1>s DEF EscapesPaired
<1>4. ControlSeen'
  <2> DEFINE Set(q, j) == WillBeSet(q, modifiers, "KEY_CONTROL", j)
  <2>b. \A q, j : Set(q, j) \in BOOLEAN
    BY DEF WillBeSet
  <2>1. Set(queue', Len(queue')) <=>
          IF Meaning(k) = "KEY_CONTROL" THEN ~release ELSE Set(queue, n)
    BY <1>n, SendSets
  <2>2. Meaning(k) = "KEY_CONTROL" <=> k \in ControlKeys
    BY <1>k, MeaningKeys
  <2>3. ASSUME NEW j \in 0 .. n PROVE Set(queue', j) = Set(queue, j)
    <3>1. j \in Nat /\ \A i \in 1 .. j : queue'[i] = queue[i]
      BY SMTT(20), <1>t, <1>y
    <3>2. QED
      BY SMTT(20), <3>1, WillBeSetPrefix
  <2>4. Set(queue, n) = ctrl
    BY <1>c
  <2>5. ASSUME NEW i \in DOMAIN queue' PROVE queue'[i].ctrl = Set(queue', i - 1)
    <3>1. CASE i \in 1 .. n
      <4>1. i - 1 \in 0 .. n
        BY SMTT(20), <3>1, <1>t
      <4>2. queue[i].ctrl = Set(queue, i - 1)
        BY <3>1, <1>t DEF KInv, ControlSeen
      <4>3. QED
        BY <4>1, <4>2, <3>1, <2>3, <1>y
    <3>2. CASE i = n + 1
      <4>1. queue'[i].ctrl = ctrl
        BY <3>2, <1>x, <1>f
      <4>2. i - 1 = n /\ n \in 0 .. n
        BY SMTT(20), <3>2, <1>t
      <4>3. Set(queue', n) = ctrl
        BY <4>2, <2>3, <2>4
      <4>4. QED
        BY <4>1, <4>2, <4>3
    <3>3. CASE i = n + 2 /\ k \in Extended
      <4>1. queue'[i].ctrl = ctrl /\ queue'[n + 1].byte = 224
        BY <3>3, <1>x, <1>f, <1>t
      <4>2. i - 1 = n + 1 /\ n \in 0 .. n
        BY SMTT(20), <3>3, <1>t
      <4>3. Set(queue', n) = ctrl
        BY <4>2, <2>3, <2>4
      <4>4. ~About(queue', n + 1, "KEY_CONTROL")
        BY <4>1 DEF About
      <4>5. Set(queue', n + 1) <=>
              IF About(queue', n + 1, "KEY_CONTROL") THEN queue'[n + 1].byte < 128
              ELSE Set(queue', n)
        BY <1>t, WillBeSetNext
      <4>6. Set(queue', n + 1) = Set(queue', n)
        BY <4>4, <4>5, <2>b
      <4>7. QED
        BY <4>1, <4>2, <4>3, <4>6
    <3>4. QED
      BY <3>1, <3>2, <3>3, <1>d
  <2>6. ctrl' = Set(queue', Len(queue'))
    BY <2>1, <2>2, <2>4, <2>b, <1>s, <1>t
  <2>7. QED
    BY <2>5, <2>6, <1>s DEF ControlSeen
<1>5. QED
  BY <1>1, <1>2, <1>3, <1>4

\* A press keeps the invariant.
LEMMA PressStep ==
  ASSUME KInv, NEW k \in Keys, Press(k)
  PROVE  KInv'
<1>1. Send(k, FALSE) /\ held' = held \cup {k} /\ held \subseteq Keys
  BY DEF Press, KInv, KeyboardTypeOK
<1>2. KeyboardTypeOK' /\ CodesSent' /\ EscapesPaired' /\ ControlSeen'
  BY <1>1, SendStep
<1>3. FlagsHeld'
  <2> SUFFICES ASSUME NEW flag \in HeldFlags,
                      WillBeSet(queue', modifiers', flag, Len(queue'))
               PROVE  \E h \in held' : Meaning(h) = flag
    BY DEF FlagsHeld
  <2>1. modifiers' = modifiers
    BY <1>1 DEF Send
  <2>2. Meaning(k) = flag \/ WillBeSet(queue, modifiers, flag, Len(queue))
    BY <1>1, <2>1, SendSets
  <2>3. QED
    BY <1>1, <2>2 DEF KInv, FlagsHeld
<1>4. QED
  BY <1>2, <1>3 DEF KInv

\* A release keeps it: a flag that is still to be set has another key.
LEMMA ReleaseStep ==
  ASSUME KInv, NEW k \in Keys, Release(k)
  PROVE  KInv'
<1>1. Send(k, TRUE) /\ held' = held \ {k} /\ held \subseteq Keys
  BY DEF Release, KInv, KeyboardTypeOK
<1>2. KeyboardTypeOK' /\ CodesSent' /\ EscapesPaired' /\ ControlSeen'
  BY <1>1, SendStep
<1>3. FlagsHeld'
  <2> SUFFICES ASSUME NEW flag \in HeldFlags,
                      WillBeSet(queue', modifiers', flag, Len(queue'))
               PROVE  \E h \in held' : Meaning(h) = flag
    BY DEF FlagsHeld
  <2>1. modifiers' = modifiers
    BY <1>1 DEF Send
  <2>2. Meaning(k) # flag /\ WillBeSet(queue, modifiers, flag, Len(queue))
    BY <1>1, <2>1, SendSets
  <2>3. QED
    BY <1>1, <2>2 DEF KInv, FlagsHeld
<1>4. QED
  BY <1>2, <1>3 DEF KInv

-----------------------------------------------------------------------------
(* The driver's step *)

\* The next code, if there is one.
LEMMA FirstCode ==
  ASSUME KInv, queue # <<>>
  PROVE  /\ 1 \in DOMAIN queue /\ Head(queue) = queue[1] /\ Len(queue) \in Nat \ {0}
         /\ queue[1].byte \in 0 .. 255 /\ queue[1].key \in Keys
<1>1. queue \in Seq(ScanCodes)
  BY DEF KInv, KeyboardTypeOK
<1>2. 1 \in DOMAIN queue /\ Head(queue) = queue[1] /\ Len(queue) \in Nat \ {0}
  BY SMTT(20), <1>1
<1>3. queue[1] \in ScanCodes
  BY SMTT(20), <1>1, <1>2
<1>4. QED
  BY <1>2, <1>3 DEF ScanCodes

\* keyboard_readc() decodes the next code to what its key means.
LEMMA DecodedMeaning ==
  ASSUME KInv, queue # <<>>, queue[1].byte # 224
  PROVE  Decoded(queue[1].byte) = Meaning(queue[1].key)
<1> DEFINE k == queue[1].key
           b == queue[1].byte
<1>1. 1 \in DOMAIN queue /\ k \in Keys
  BY FirstCode
<1>2. k \in DOMAIN Code /\ Code[k] \in 1 .. 95
  BY <1>1, KeyboardAssumption, KeyCodes
<1>3. b = Code[k] \/ b = Code[k] + 128
  BY <1>1 DEF KInv, CodesSent
<1>4. last_escape = IF k \in Extended THEN 128 ELSE 0
  <2>1. last_escape \in {0, 128} /\ EscapesPaired
    BY DEF KInv, KeyboardTypeOK
  <2>2. k \in Extended <=> last_escape = 128
    BY SMTT(20), <2>1, <1>1 DEF EscapesPaired
  <2>3. QED
    BY <2>1, <2>2
<1> HIDE DEF k, b
<1>5. (IF b < 128 THEN b ELSE b - 128) = Code[k]
  <2>1. PICK c \in 1 .. 95 : c = Code[k]
    BY <1>2
  <2>2. CASE b = c
    <3>1. b < 128
      BY SMTT(20), <2>2
    <3>2. QED
      BY <3>1, <2>1, <2>2
  <2>3. CASE b = c + 128
    <3>1. ~(b < 128) /\ b - 128 = c
      BY SMTT(20), <2>3
    <3>2. QED
      BY <3>1, <2>1
  <2>4. QED
    BY <2>1, <2>2, <2>3, <1>3
<1>6. QED
  BY <1>4, <1>5 DEF Decoded, Meaning, k, b

\* What a code does to the flags of Shift, Control and Alt.
LEMMA ModifiedFlags ==
  ASSUME KInv, Poll, NEW flag \in HeldFlags
  PROVE  flag \in modifiers' <=>
           IF About(queue, 1, flag) THEN queue[1].byte < 128 ELSE flag \in modifiers
<1>b. PICK b \in 0 .. 255 : b = queue[1].byte
  BY FirstCode DEF Poll
<1>1. queue # <<>> /\ Head(queue) = queue[1]
  BY FirstCode DEF Poll
<1>2. CASE b = 224
  BY <1>b, <1>1, <1>2 DEF Poll, About
<1>3. CASE b # 224
  <2>1. modifiers' = Modified(b) /\ Decoded(b) = Meaning(queue[1].key)
    BY <1>b, <1>1, <1>3, DecodedMeaning DEF Poll
  <2>2. About(queue, 1, flag) <=> Decoded(b) = flag
    BY <1>b, <1>3, <2>1 DEF About
  <2>3. flag \notin ToggleFlags
    BY DEF HeldFlags, ToggleFlags
  <2>4. CASE b >= 128
    <3>1. modifiers' = modifiers \ ({Decoded(b)} \cap HeldFlags)
      BY SMTT(20), <2>1, <2>4 DEF Modified
    <3>2. ~(queue[1].byte < 128)
      BY SMTT(20), <2>4, <1>b
    <3>3. QED
      BY <3>1, <3>2, <2>2
  <2>5. CASE b < 128
    BY SMTT(20), <2>1, <2>2, <2>3, <2>5, <1>b DEF Modified
  <2>6. QED
    BY SMTT(20), <2>4, <2>5
<1>4. QED
  BY <1>2, <1>3

\* A poll keeps the invariant.
LEMMA PollStep ==
  ASSUME KInv, Poll
  PROVE  KInv'
<1> DEFINE b == queue[1].byte
<1>n. PICK n \in Nat : n + 1 = Len(queue)
  <2>1. Len(queue) \in Nat \ {0}
    BY FirstCode DEF Poll
  <2>2. Len(queue) - 1 \in Nat /\ (Len(queue) - 1) + 1 = Len(queue)
    BY SMTT(20), <2>1
  <2>3. QED
    BY <2>2
<1>1. /\ queue # <<>> /\ Head(queue) = queue[1] /\ b \in 0 .. 255
      /\ queue' = Tail(queue) /\ queue \in Seq(ScanCodes)
  BY FirstCode DEF Poll, KInv, KeyboardTypeOK
<1>2. /\ Len(queue') = n /\ queue' \in Seq(ScanCodes)
      /\ DOMAIN queue' = 1 .. n /\ DOMAIN queue = 1 .. n + 1
      /\ \A i \in 1 .. n : queue'[i] = queue[i + 1]
  BY SMTT(20), <1>1, <1>n
<1>3. \A i \in 1 .. n : i + 1 \in 1 .. n + 1 /\ i + 1 # 1 /\ (i + 1) - 1 = i
  BY SMTT(20)
<1>4. /\ last_escape' = IF b = 224 THEN 128 ELSE 0
      /\ held' = held /\ ctrl' = ctrl
  BY SMTT(20), <1>1 DEF Poll
<1>5. ASSUME NEW flag \in HeldFlags, NEW j \in Nat, j <= n
      PROVE  WillBeSet(queue', modifiers', flag, j) <=> WillBeSet(queue, modifiers, flag, j + 1)
  <2>1. \A i \in 1 .. j : queue'[i] = queue[i + 1]
    BY SMTT(20), <1>2, <1>5
  <2>2. QED
    BY <2>1, ModifiedFlags, WillBeSetTail
<1>6. KeyboardTypeOK'
  <2>1. modifiers' \subseteq HeldFlags \cup ToggleFlags
    BY SMTT(20), <1>1 DEF Poll, Modified, KInv, KeyboardTypeOK
  <2>2. command' \in DOMAIN Meant
    <3>1. DOMAIN Meant = {"none", "allocator", "fork", "forkexit", "test", "test2", "off"}
      BY DEF Meant
    <3>2. \A char : Action(char) \in DOMAIN Meant
      BY <3>1 DEF Action
    <3>3. QED
      BY <3>1, <3>2 DEF Poll
  <2>3. QED
    BY <2>1, <2>2, <1>2, <1>4 DEF KInv, KeyboardTypeOK
<1>7. CodesSent'
  BY SMTT(20), <1>2, <1>3 DEF KInv, CodesSent
<1>8. EscapesPaired'
  <2>e. EscapesPaired
    BY DEF KInv
  <2>1. ASSUME queue' = <<>> PROVE last_escape' = 0
    <3>1. n = 0
      BY <2>1, <1>2
    <3>2. 1 \in DOMAIN queue /\ 1 + 1 \notin DOMAIN queue
      BY SMTT(20), <3>1, <1>2
    <3>3. QED
      BY SMTT(20), <3>2, <2>e, <1>4 DEF EscapesPaired
  <2>2. ASSUME NEW i \in DOMAIN queue', queue'[i].byte = 224
        PROVE  i + 1 \in DOMAIN queue' /\ queue'[i + 1].byte # 224
    <3>1. i \in 1 .. n /\ i + 1 \in DOMAIN queue /\ queue[i + 1].byte = 224
      BY SMTT(20), <2>2, <1>2, <1>3
    <3>2. (i + 1) + 1 \in DOMAIN queue /\ queue[(i + 1) + 1].byte # 224
      BY <3>1, <2>e DEF EscapesPaired
    <3>3. i + 1 \in 1 .. n
      BY SMTT(20), <3>1, <3>2, <1>2
    <3>4. QED
      BY SMTT(20), <3>2, <3>3, <1>2
  <2>3. ASSUME NEW i \in DOMAIN queue', queue'[i].byte # 224
        PROVE  queue'[i].key \in Extended
                 <=> IF i = 1 THEN last_escape' = 128 ELSE queue'[i - 1].byte = 224
    <3>1. i \in 1 .. n /\ i + 1 \in DOMAIN queue /\ queue'[i] = queue[i + 1]
      BY <1>2, <1>3
    <3>2. queue[i + 1].key \in Extended <=> queue[i].byte = 224
      BY SMTT(20), <3>1, <2>3, <2>e, <1>3 DEF EscapesPaired
    <3>3. CASE i = 1
      BY SMTT(20), <3>1, <3>2, <3>3, <1>4
    <3>4. CASE i # 1
      <4>1. i - 1 \in 1 .. n /\ (i - 1) + 1 = i
        BY SMTT(20), <3>1, <3>4
      <4>2. queue'[i - 1] = queue[i]
        BY <4>1, <1>2
      <4>3. QED
        BY <4>2, <3>1, <3>2, <3>4
    <3>5. QED
      BY <3>3, <3>4
  <2>4. ASSUME queue' # <<>>, queue'[1].byte = 224 PROVE last_escape' = 0
    <3>1. 1 \in 1 .. n
      BY SMTT(20), <2>4, <1>2
    <3>2. queue[2].byte = 224 /\ 1 \in DOMAIN queue
      <4>1. queue'[1] = queue[1 + 1] /\ 1 + 1 = 2
        BY SMTT(20), <3>1, <1>2
      <4>2. QED
        BY SMTT(20), <4>1, <2>4, <1>2
    <3>3. queue[1].byte # 224
      <4>1. queue[1].byte = 224 => queue[1 + 1].byte # 224
        BY <3>2, <2>e DEF EscapesPaired
      <4>2. QED
        BY SMTT(20), <4>1, <3>2
    <3>4. QED
      BY <3>3, <1>4
  <2>5. QED
    BY <2>1, <2>2, <2>3, <2>4 DEF EscapesPaired
<1>9. FlagsHeld'
  <2> SUFFICES ASSUME NEW flag \in HeldFlags,
                      WillBeSet(queue', modifiers', flag, Len(queue'))
               PROVE  \E h \in held' : Meaning(h) = flag
    BY DEF FlagsHeld
  <2>1. WillBeSet(queue, modifiers, flag, Len(queue))
    BY SMTT(20), <1>2, <1>5, <1>n
  <2>2. QED
    BY <2>1, <1>4 DEF KInv, FlagsHeld
<1>10. ControlSeen'
  <2> DEFINE Set(q, m, j) == WillBeSet(q, m, "KEY_CONTROL", j)
  <2>b. \A q, m, j : Set(q, m, j) \in BOOLEAN
    BY DEF WillBeSet
  <2>1. "KEY_CONTROL" \in HeldFlags
    BY DEF HeldFlags
  <2>2. \A j \in 0 .. n : Set(queue', modifiers', j) = Set(queue, modifiers, j + 1)
    <3> SUFFICES ASSUME NEW j \in 0 .. n
                 PROVE  Set(queue', modifiers', j) = Set(queue, modifiers, j + 1)
      OBVIOUS
    <3>1. j \in Nat /\ j <= n
      BY SMTT(20), <1>n
    <3>2. Set(queue', modifiers', j) <=> Set(queue, modifiers, j + 1)
      BY <3>1, <2>1, <1>5
    <3>3. QED
      BY <3>2, <2>b
  <2>3. ControlSeen
    BY DEF KInv
  <2> HIDE DEF Set
  <2>4. ctrl' = Set(queue', modifiers', Len(queue'))
    <3>1. ctrl = Set(queue, modifiers, n + 1)
      BY <2>3, <1>n DEF ControlSeen, Set
    <3>2. n \in 0 .. n
      BY SMTT(20), <1>n
    <3>3. QED
      BY <3>1, <3>2, <2>2, <1>2, <1>4
  <2>5. ASSUME NEW i \in DOMAIN queue' PROVE queue'[i].ctrl = Set(queue', modifiers', i - 1)
    <3>1. i \in 1 .. n /\ i + 1 \in DOMAIN queue /\ (i + 1) - 1 = i
      BY <1>2, <1>3
    <3>2. queue'[i] = queue[i + 1]
      BY <3>1, <1>2
    <3>3. queue[i + 1].ctrl = Set(queue, modifiers, i)
      BY <3>1, <2>3 DEF ControlSeen, Set
    <3>4. i - 1 \in 0 .. n /\ (i - 1) + 1 = i
      BY SMTT(20), <3>1
    <3>5. Set(queue', modifiers', i - 1) = Set(queue, modifiers, i)
      BY <3>4, <2>2
    <3>6. QED
      BY <3>2, <3>3, <3>5
  <2>6. QED
    BY <2>4, <2>5 DEF ControlSeen, Set
<1>11. QED
  BY <1>6, <1>7, <1>8, <1>9, <1>10 DEF KInv

-----------------------------------------------------------------------------
(* The theorems *)

\* Every step of the user and of the driver keeps the invariant.
LEMMA KInvNext == KInv /\ [Next]_vars => KInv'
<1> SUFFICES ASSUME KInv, [Next]_vars PROVE KInv'
  OBVIOUS
<1>1. ASSUME NEW k \in Keys, Press(k) PROVE KInv'
  BY <1>1, PressStep
<1>2. ASSUME NEW k \in Keys, Release(k) PROVE KInv'
  BY <1>2, ReleaseStep
<1>3. CASE Poll
  BY <1>3, PollStep
<1>4. CASE Off \/ UNCHANGED vars
  <2>1. UNCHANGED <<modifiers, last_escape, queue, held, ctrl, command>>
    BY <1>4 DEF Off, vars
  <2>2. KeyboardTypeOK' /\ CodesSent' /\ EscapesPaired'
    BY SMTT(20), <2>1 DEF KInv, KeyboardTypeOK, CodesSent, EscapesPaired
  <2>3. FlagsHeld' /\ ControlSeen'
    BY <2>1 DEF KInv, FlagsHeld, ControlSeen
  <2>4. QED
    BY <2>2, <2>3 DEF KInv
<1>5. QED
  BY <1>1, <1>2, <1>3, <1>4 DEF Next

\* The driver's flags and the codes that wait for it always add up to the keys
\* that are down, for every number of keys held and of codes in the controller.
THEOREM KeyboardInvariant == Spec => []KInv
<1>1. Init => KInv
  <2> SUFFICES ASSUME Init PROVE KInv
    OBVIOUS
  <2>1. /\ queue = <<>> /\ modifiers = {} /\ last_escape = 0
        /\ held = {} /\ ctrl = FALSE /\ command = "none"
    BY DEF Init
  <2>2. queue \in Seq(ScanCodes) /\ DOMAIN queue = {} /\ Len(queue) = 0
    BY SMTT(20), <2>1
  <2>3. "none" \in DOMAIN Meant
    BY DEF Meant
  <2>4. KeyboardTypeOK
    BY <2>1, <2>2, <2>3 DEF KeyboardTypeOK
  <2>5. CodesSent /\ EscapesPaired
    BY <2>1, <2>2 DEF CodesSent, EscapesPaired
  <2>6. \A flag : ~WillBeSet(queue, modifiers, flag, Len(queue))
    BY SMTT(20), <2>1, <2>2 DEF WillBeSet
  <2>7. FlagsHeld /\ ControlSeen
    <3>1. WillBeSet(queue, modifiers, "KEY_CONTROL", Len(queue)) = FALSE
      BY <2>6 DEF WillBeSet
    <3>2. QED
      BY <3>1, <2>1, <2>2, <2>6 DEF FlagsHeld, ControlSeen
  <2>8. QED
    BY <2>4, <2>5, <2>7 DEF KInv
<1>2. QED
  BY <1>1, KInvNext, PTL DEF Spec

\* No sequence of keys leaves a modifier set in the driver when its keys are up.
THEOREM NoModifierStuck == Spec => []NoStuckModifier
<1>1. KInv => NoStuckModifier
  <2> SUFFICES ASSUME KInv, queue = <<>> PROVE NoStuckModifier
    BY DEF NoStuckModifier
  <2>1. ASSUME NEW flag \in HeldFlags, flag \in modifiers
        PROVE  \E k \in held : Meaning(k) = flag
    <3>1. Len(queue) = 0
      OBVIOUS
    <3>2. WillBeSet(queue, modifiers, flag, Len(queue))
      BY SMTT(20), <2>1, <3>1 DEF WillBeSet
    <3>3. QED
      BY <3>2 DEF KInv, FlagsHeld
  <2>2. \A k \in held : k \in DOMAIN Code
    BY KeyboardAssumption DEF KInv, KeyboardTypeOK
  <2>3. ASSUME "KEY_SHIFT" \in modifiers PROVE held \cap ShiftKeys # {}
    <3>1. PICK k \in held : Meaning(k) = "KEY_SHIFT"
      BY <2>1, <2>3 DEF HeldFlags
    <3>2. QED
      BY <3>1, <2>2, MeaningKeys
  <2>4. ASSUME "KEY_CONTROL" \in modifiers PROVE held \cap ControlKeys # {}
    <3>1. PICK k \in held : Meaning(k) = "KEY_CONTROL"
      BY <2>1, <2>4 DEF HeldFlags
    <3>2. QED
      BY <3>1, <2>2, MeaningKeys
  <2>5. ASSUME "KEY_ALT" \in modifiers PROVE "alt" \in held
    <3>1. PICK k \in held : Meaning(k) = "KEY_ALT"
      BY <2>1, <2>5 DEF HeldFlags
    <3>2. QED
      BY <3>1, <2>2, MeaningKeys
  <2>6. QED
    BY <2>3, <2>4, <2>5 DEF NoStuckModifier
<1>2. QED
  BY <1>1, KeyboardInvariant, PTL

\* What keyboard_readc() returns for a letter.
LEMMA LetterTyped ==
  ASSUME NEW ch \in Letters
  PROVE  IF "KEY_CONTROL" \in modifiers
         THEN Character(ch) = [kind |-> "control", ch |-> ch]
         ELSE Character(ch) \in {[kind |-> "capital", ch |-> ch], [kind |-> "plain", ch |-> ch]}
<1>1. Character(ch) = IF "KEY_CONTROL" \in modifiers THEN [kind |-> "control", ch |-> ch]
         ELSE IF ("KEY_SHIFT" \in modifiers) # ("KEY_CAPSLOCK" \in modifiers)
         THEN [kind |-> "capital", ch |-> ch]
         ELSE [kind |-> "plain", ch |-> ch]
  BY SMTT(30) DEF Character, Letters
<1>2. QED
  BY <1>1

\* What check_keyboard() does when it does anything.
LEMMA ActionMeant ==
  ASSUME NEW k \in DOMAIN Code, Action(Character(Meaning(k))) # "none"
  PROVE  /\ k \in Meant[Action(Character(Meaning(k)))]
         /\ k = "c" => "KEY_CONTROL" \in modifiers
<1> DEFINE char == Character(Meaning(k))
<1>m. /\ Meant["allocator"] = {"a"} /\ Meant["fork"] = {"f"} /\ Meant["forkexit"] = {"e"}
      /\ Meant["test"] = {"t"} /\ Meant["test2"] = {"digit2", "keypad2"}
      /\ Meant["off"] = {"q", "c"}
  BY DEF Meant
<1>1. CASE Meaning(k) \in Letters
  <2>1. k = Meaning(k) /\ k \in Letters
    BY <1>1, MeaningKeys
  <2>2. CASE "KEY_CONTROL" \in modifiers
    <3>1. char = [kind |-> "control", ch |-> k]
      BY <2>1, <2>2, LetterTyped
    <3>2. char.kind = "control" /\ char.ch = k
      BY SMTT(20), <3>1
    <3> HIDE DEF char
    <3>3. Action(char) = IF k = "c" THEN "off" ELSE "none"
      BY <3>2 DEF Action
    <3>4. QED
      BY <3>3, <2>2, <1>m DEF char
  <2>3. CASE "KEY_CONTROL" \notin modifiers
    <3>1. \/ char = [kind |-> "capital", ch |-> k]
          \/ char = [kind |-> "plain", ch |-> k]
      BY <2>1, <2>3, LetterTyped
    <3>2. char.kind \in {"capital", "plain"} /\ char.ch = k
      BY SMTT(20), <3>1
    <3> HIDE DEF char
    <3>3. \/ Action(char) = "none"
          \/ k # "c" /\ k \in Meant[Action(char)]
      BY <3>2, <2>1, <1>m DEF Action, Letters
    <3>4. QED
      BY <3>3 DEF char
  <2>4. QED
    BY <2>2, <2>3
<1>2. CASE Meaning(k) = "CKEY(1)"
  <2>1. k = "digit2" /\ char.kind = "plain" /\ char.ch \in {"0", "2", "@"}
    BY <1>2, MeaningKeys DEF Character, Letters
  <2> HIDE DEF char
  <2>2. QED
    BY <2>1, <1>m DEF Action, char
<1>3. CASE Meaning(k) = "2"
  <2>1. k = "keypad2" /\ char.kind = "plain" /\ char.ch \in {"0", "2"}
    BY <1>3, MeaningKeys DEF Character, Letters
  <2> HIDE DEF char
  <2>2. QED
    BY <2>1, <1>m DEF Action, char
<1>4. CASE Meaning(k) \notin Letters \cup {"CKEY(1)", "2"}
  <2>1. char.kind = "plain" /\ char.ch \in {"0", "KEY_DOWN"}
    BY <1>4 DEF Character
  <2> HIDE DEF char
  <2>2. Action(char) = "none"
    BY <2>1 DEF Action
  <2>3. QED
    BY <2>2 DEF char
<1>5. QED
  BY <1>1, <1>2, <1>3, <1>4

\* A reboot or power off is always what the user meant, however many codes were
\* waiting when the key was pressed.
THEOREM CommandsAreMeant == Spec => CommandsMeant
<1> DEFINE Good == command' # "none" /\ command # "off" =>
                     /\ Head(queue).key \in Meant[command']
                     /\ command' = "off" /\ Head(queue).key = "c" => Head(queue).ctrl
<1>1. KInv /\ [Next]_vars => [Good]_vars
  <2> SUFFICES ASSUME KInv, Next, command' # "none", command # "off"
               PROVE  /\ Head(queue).key \in Meant[command']
                      /\ command' = "off" /\ Head(queue).key = "c" => Head(queue).ctrl
    OBVIOUS
  <2>1. Poll
    BY DEF Next, Press, Release, Send, Off
  <2>2. PICK b \in 0 .. 255 : b = queue[1].byte
    BY <2>1, FirstCode DEF Poll
  <2>3. PICK k \in Keys : k = queue[1].key
    BY <2>1, FirstCode DEF Poll
  <2>4. queue # <<>> /\ 1 \in DOMAIN queue /\ Head(queue) = queue[1] /\ k \in DOMAIN Code
    BY <2>1, FirstCode, KeyboardAssumption DEF Poll
  <2>5. b < 128 /\ command' = Action(Character(Decoded(b)))
    BY SMTT(20), <2>1, <2>2, <2>4 DEF Poll
  <2>6. Decoded(b) = Meaning(k)
    BY SMTT(20), <2>2, <2>3, <2>4, <2>5, DecodedMeaning
  <2>7. k \in Meant[command'] /\ (k = "c" => "KEY_CONTROL" \in modifiers)
    BY <2>4, <2>5, <2>6, ActionMeant
  <2>8. ASSUME "KEY_CONTROL" \in modifiers PROVE queue[1].ctrl
    <3>1. queue[1].ctrl = WillBeSet(queue, modifiers, "KEY_CONTROL", 1 - 1)
      BY <2>4 DEF KInv, ControlSeen
    <3>2. WillBeSet(queue, modifiers, "KEY_CONTROL", 1 - 1)
      BY SMTT(20), <2>8 DEF WillBeSet
    <3>3. QED
      BY <3>1, <3>2
  <2>9. QED
    BY <2>3, <2>4, <2>7, <2>8
<1>2. QED
  BY <1>1, KeyboardInvariant, PTL DEF Spec, CommandsMeant
=============================================================================

--------------------------- MODULE KeyboardProofs ---------------------------
(***************************************************************************)
(* Proofs about Keyboard for every size of the ring, every set of keys,    *)
(* modifiers and commands and every repeat rate: the ring is a queue that  *)
(* only drops what does not fit, the controller never falls silent with    *)
(* codes in it, and the BIOS flags follow the keys.                        *)
(***************************************************************************)
EXTENDS Keyboard, SequenceTheorems, WellFoundedInduction, TLAPS

K == KEYBUFSIZE

\* The inductive invariant.
IInv == TypeOK /\ NothingStuck

-----------------------------------------------------------------------------
(* The ring *)

\* Indices that have run past the end once or twice.
LEMMA Wrapped ==
  ASSUME NEW x \in 0..(K - 1)
  PROVE  x % K = x /\ (x + K) % K = x /\ (x + 2 * K) % K = x
BY KeyboardAssumption DEF K

LEMMA InRange ==
  ASSUME NEW x \in Nat
  PROVE  x % K \in 0..(K - 1)
BY KeyboardAssumption DEF K

\* The entry of the k-th code in the ring, and the place after the last code
\* that AddBuffer computes for an entry.
Entry(k) == (pos + k - 1) % K
After(n) == 1 + ((n + 2 * K - pos - used) % K)

\* AddBuffer finds the entries: those in use come out behind the free ones, and
\* the free ones in order from 1.
LEMMA Places ==
  ASSUME TypeOK, NEW k \in 1..K
  PROVE  /\ Entry(k) \in 0..(K - 1)
         /\ After(Entry(k)) = IF k <= used THEN K + k - used ELSE k - used
<1> DEFINE n == Entry(k)
           y == IF k <= used THEN k - 1 - used + K ELSE k - 1 - used
<1>1. /\ K \in Nat \ {0} /\ pos \in 0..(K - 1) /\ used \in 0..K
  BY KeyboardAssumption DEF TypeOK, K
<1>2. y \in 0..(K - 1)
  BY <1>1
<1>3. n = pos + k - 1 \/ n = pos + k - 1 - K
  <2>1. CASE pos + k - 1 < K
    BY <2>1, <1>1, Wrapped DEF Entry
  <2>2. CASE pos + k - 1 >= K
    <3>1. pos + k - 1 - K \in 0..(K - 1)
      BY <2>2, <1>1
    <3>2. ((pos + k - 1 - K) + K) % K = pos + k - 1 - K
      BY <3>1, Wrapped
    <3>3. (pos + k - 1 - K) + K = pos + k - 1
      BY <1>1
    <3> QED
      BY <3>2, <3>3 DEF Entry
  <2> QED
    BY <2>1, <2>2, <1>1
<1>4. n \in 0..(K - 1)
  <2>1. pos + k - 1 \in Nat
    BY <1>1
  <2> QED
    BY <2>1, InRange DEF Entry
<1>5. (n + 2 * K - pos - used) \in {y, y + K, y + 2 * K}
  BY <1>1, <1>3
<1>6. (n + 2 * K - pos - used) % K = y
  <2> HIDE DEF n, y
  <2> QED
    BY <1>2, <1>5, Wrapped
<1> QED
  BY <1>1, <1>4, <1>6 DEF After

\* What AddBuffer does to the ring as a queue: the codes that fit go behind those
\* that are there, in order, and nothing else changes.
LEMMA AddBufferAppends ==
  ASSUME TypeOK, NEW codes \in Seq(Codes), AddBuffer(codes), pos' = pos
  PROVE  LET added == IF Len(codes) <= K - used THEN Len(codes) ELSE K - used
         IN /\ used' = used + added /\ used' \in 0..K
            /\ buffer' \in [0..(K - 1) -> Codes \cup {Free}]
            /\ \A k \in 1..used : Ring'[k] = Ring[k]
            /\ \A k \in 1..added : Ring'[used + k] = codes[k]
<1> DEFINE added == IF Len(codes) <= K - used THEN Len(codes) ELSE K - used
<1>1. /\ K \in Nat \ {0} /\ pos \in 0..(K - 1) /\ used \in 0..K /\ K = KEYBUFSIZE
      /\ buffer \in [0..(K - 1) -> Codes \cup {Free}]
  BY KeyboardAssumption DEF TypeOK, K
<1>2. Len(codes) \in Nat /\ \A k \in 1..Len(codes) : codes[k] \in Codes
  OBVIOUS
<1>3. added \in 0..(K - used) /\ added <= Len(codes)
  BY <1>1, <1>2
<1>4. /\ used' = used + added
      /\ buffer' = [n \in 0..(K - 1) |-> IF After(n) <= added THEN codes[After(n)] ELSE buffer[n]]
  BY <1>1 DEF AddBuffer, After, Room
<1>5. \A n \in 0..(K - 1) : After(n) \in 1..K
  <2> SUFFICES ASSUME NEW n \in 0..(K - 1) PROVE After(n) \in 1..K
    OBVIOUS
  <2>1. n + 2 * K - pos - used \in Nat
    BY <1>1
  <2>2. (n + 2 * K - pos - used) % K \in 0..(K - 1)
    BY <2>1, InRange
  <2> QED
    BY <2>2, <1>1 DEF After
<1>6. used' \in 0..K
  BY <1>1, <1>3, <1>4
<1>7. buffer' \in [0..(K - 1) -> Codes \cup {Free}]
  <2> HIDE DEF added
  <2> QED
    BY <1>1, <1>2, <1>3, <1>4, <1>5
<1>8. \A k \in 1..used' : Ring'[k] = buffer'[Entry(k)]
  BY <1>1 DEF Ring, Entry
<1>9. \A k \in 1..used : Ring[k] = buffer[Entry(k)]
  BY <1>1 DEF Ring, Entry
<1>10. \A k \in 1..used : Ring'[k] = Ring[k]
  <2> SUFFICES ASSUME NEW k \in 1..used PROVE Ring'[k] = Ring[k]
    OBVIOUS
  <2> HIDE DEF added
  <2>1. k \in 1..K /\ k \in 1..used' /\ k <= used
    BY <1>1, <1>3, <1>4
  <2>2. Entry(k) \in 0..(K - 1) /\ After(Entry(k)) = K + k - used
    BY <2>1, Places
  <2>3. ~(After(Entry(k)) <= added)
    BY <2>2, <1>1, <1>3
  <2>4. buffer'[Entry(k)] = buffer[Entry(k)]
    BY <2>2, <2>3, <1>4
  <2> QED
    BY <2>1, <2>4, <1>8, <1>9
<1>11. \A k \in 1..added : Ring'[used + k] = codes[k]
  <2> SUFFICES ASSUME NEW k \in 1..added PROVE Ring'[used + k] = codes[k]
    OBVIOUS
  <2> HIDE DEF added
  <2>1. used + k \in 1..K /\ used + k \in 1..used' /\ ~(used + k <= used) /\ k <= added
    BY <1>1, <1>3, <1>4
  <2>2. Entry(used + k) \in 0..(K - 1) /\ After(Entry(used + k)) = (used + k) - used
    BY <2>1, Places
  <2>3. After(Entry(used + k)) = k
    BY <2>2, <1>1, <1>3
  <2>4. buffer'[Entry(used + k)] = codes[k]
    BY <2>1, <2>2, <2>3, <1>4
  <2> QED
    BY <2>1, <2>4, <1>8
<1> QED
  BY <1>4, <1>6, <1>7, <1>10, <1>11

\* What taking a code does: the first one goes and the others move up.
LEMMA TakeFirst ==
  ASSUME TypeOK, used > 0,
         buffer' = [buffer EXCEPT ![pos] = Free],
         pos' = (pos + 1) % KEYBUFSIZE, used' = used - 1
  PROVE  /\ buffer[pos] = Ring[1] /\ buffer[pos] \in Codes
         /\ used' \in 0..K /\ pos' \in 0..(K - 1)
         /\ buffer' \in [0..(K - 1) -> Codes \cup {Free}]
         /\ \A k \in 1..used' : Ring'[k] = Ring[k + 1]
<1>1. /\ K \in Nat \ {0} /\ pos \in 0..(K - 1) /\ used \in 1..K /\ K = KEYBUFSIZE
      /\ buffer \in [0..(K - 1) -> Codes \cup {Free}]
  BY KeyboardAssumption DEF TypeOK, K
<1>2. \A k \in 1..used : Ring[k] = buffer[Entry(k)] /\ Ring[k] \in Codes
  BY <1>1 DEF Ring, Entry, TypeOK
<1>3. Entry(1) = pos
  <2>1. pos + 1 - 1 = pos
    BY <1>1
  <2> QED
    BY <2>1, <1>1, Wrapped DEF Entry
<1>4. pos' \in 0..(K - 1)
  <2>1. pos + 1 \in Nat
    BY <1>1
  <2> QED
    BY <2>1, <1>1, InRange
<1>5. \A k \in 1..used' : Ring'[k] = Ring[k + 1]
  <2> SUFFICES ASSUME NEW k \in 1..used' PROVE Ring'[k] = Ring[k + 1]
    OBVIOUS
  <2>1. k + 1 \in 2..used /\ k + 1 \in 1..K
    BY <1>1
  <2>2. Ring'[k] = buffer'[(pos' + k - 1) % K]
    BY <1>1 DEF Ring
  <2>3. (pos' + k - 1) % K = Entry(k + 1)
    <3>1. CASE pos = K - 1
      <4>1. pos' = 0
        <5>1. pos + 1 = 0 + K /\ 0 \in 0..(K - 1)
          BY <3>1, <1>1
        <5> QED
          BY <5>1, <1>1, Wrapped
      <4>2. k - 1 \in 0..(K - 1) /\ pos + (k + 1) - 1 = (k - 1) + K /\ pos' + k - 1 = k - 1
        BY <3>1, <4>1, <2>1, <1>1
      <4> QED
        BY <4>2, Wrapped DEF Entry
    <3>2. CASE pos # K - 1
      <4>1. pos' = pos + 1
        <5>1. pos + 1 \in 0..(K - 1)
          BY <3>2, <1>1
        <5> QED
          BY <5>1, <1>1, Wrapped
      <4>2. pos' + k - 1 = pos + (k + 1) - 1
        BY <4>1, <2>1, <1>1
      <4> QED
        BY <4>2 DEF Entry
    <3> QED
      BY <3>1, <3>2
  <2>4. Entry(k + 1) # pos /\ Entry(k + 1) \in 0..(K - 1)
    <3>1. /\ After(Entry(k + 1)) = K + (k + 1) - used
          /\ After(Entry(1)) = K + 1 - used
          /\ Entry(k + 1) \in 0..(K - 1)
      BY <2>1, <1>1, Places
    <3>2. After(Entry(k + 1)) # After(Entry(1))
      BY <3>1, <2>1, <1>1
    <3> QED
      BY <3>1, <3>2, <1>3
  <2> QED
    BY <2>1, <2>2, <2>3, <2>4, <1>1, <1>2
<1> QED
  BY <1>1, <1>2, <1>3, <1>4, <1>5

-----------------------------------------------------------------------------
(* Types of what is added *)

\* A key sends one code, or the prefix and one code.
LEMMA KeyCodesType ==
  ASSUME NEW key \in Keys, NEW pressed \in BOOLEAN
  PROVE  KeyCodes(key, pressed) \in Seq(Codes) /\ KeyCodes(key, pressed)[1] \in Codes
<1> DEFINE s == KeyCodes(key, pressed)
<1>1. DOMAIN s \in {1..1, 1..2}
  <2>1. CASE key \in DOMAIN Extended
    BY <2>1 DEF KeyCodes
  <2>2. CASE key \notin DOMAIN Extended
    BY <2>2 DEF KeyCodes
  <2> QED
    BY <2>1, <2>2
<1>2. \A k \in DOMAIN s : s[k] \in Codes
  <2> SUFFICES ASSUME NEW k \in DOMAIN s PROVE s[k] \in Codes
    OBVIOUS
  <2>1. s[k] \in ToSet(s)
    BY DEF ToSet
  <2>2. ToSet(s) \subseteq Codes
    BY DEF Codes
  <2> QED
    BY <2>1, <2>2
<1>3. s = [k \in DOMAIN s |-> s[k]]
  BY DEF KeyCodes
<1>4. s \in Seq(Codes) /\ s[1] \in Codes
  <2> HIDE DEF s
  <2>1. \A n \in Nat : [1..n -> Codes] \subseteq Seq(Codes)
    OBVIOUS
  <2>2. s \in [DOMAIN s -> Codes]
    BY <1>2, <1>3
  <2>3. 1 \in DOMAIN s
    BY <1>1
  <2>4. s[1] \in Codes
    BY <1>2, <2>3
  <2>5. s \in [1..1 -> Codes] \/ s \in [1..2 -> Codes]
    BY <1>1, <2>2
  <2>6. s \in Seq(Codes)
    BY <2>1, <2>5
  <2> QED
    BY <2>4, <2>6
<1> QED
  BY <1>4

\* The flags stay flags whatever code is handled.
LEMMA AfterCodeType ==
  ASSUME NEW f \in SUBSET Flags, NEW code
  PROVE  AfterCode(f, code) \subseteq Flags
<1>1. \A name, side \in Flags : Pressed(f, name, side) \subseteq Flags
  BY DEF Pressed
<1>2. \A name, side, other : Released(f, name, side, other) \subseteq Flags
  BY DEF Released
<1>3. /\ {"ctrl", "lctrl", "rctrl", "alt", "lalt", "ralt"} \subseteq Flags
      /\ f \cup {"shift"} \subseteq Flags /\ f \ {"shift"} \subseteq Flags
      /\ f \cup {"numdown"} \subseteq Flags
      /\ (f \ {"numlock"}) \ {"numdown"} \subseteq Flags
      /\ (f \cup {"numlock"}) \ {"numdown"} \subseteq Flags
      /\ f \cup {"e0"} \subseteq Flags
  BY DEF Flags
<1>4. \A g : g \subseteq Flags => g \ {"e0"} \subseteq Flags
  OBVIOUS
<1> QED
  BY <1>1, <1>2, <1>3, <1>4 DEF AfterCode

-----------------------------------------------------------------------------
(* The steps *)

\* What a step may do to the ring.
Appends == used <= used' /\ \A k \in 1..used : Ring'[k] = Ring[k]
Takes   == /\ used > 0 /\ used' = used - 1 /\ p60data' = Ring[1] /\ p60changed'
           /\ \A k \in 1..used' : Ring'[k] = Ring[k + 1]
Clears  == used' = 1 /\ Ring'[1] = Ack

RingStep == Appends \/ Takes \/ Clears

\* The invariant speaks only of the variables.
LEMMA RingSame ==
  ASSUME TypeOK, UNCHANGED ring
  PROVE  Ring' = Ring /\ Appends
<1>1. Ring' = Ring
  BY DEF Ring, ring
<1> QED
  BY <1>1 DEF Appends, ring, TypeOK

LEMMA AddBufferPreserves ==
  ASSUME IInv, NEW codes \in Seq(Codes), AddBuffer(codes),
         UNCHANGED <<pos, port, bios, command, irq1>>,
         down' \subseteq Keys,
         repeat' \in [key : Keys \cup {"none"}, wait : Nat],
         repeat'.wait > 0 => repeat'.key \in Keys
  PROVE  IInv' /\ Appends
<1> DEFINE added == IF Len(codes) <= K - used THEN Len(codes) ELSE K - used
<1>1. /\ K \in Nat \ {0} /\ used \in 0..K /\ K = KEYBUFSIZE /\ pos' = pos
  BY KeyboardAssumption DEF IInv, TypeOK, K
<1>2. Len(codes) \in Nat /\ \A k \in 1..Len(codes) : codes[k] \in Codes
  OBVIOUS
<1>3. added \in 0..(K - used) /\ added <= Len(codes)
  BY <1>1, <1>2
<1>4. /\ used' = used + added /\ used' \in 0..K
      /\ buffer' \in [0..(K - 1) -> Codes \cup {Free}]
      /\ \A k \in 1..used : Ring'[k] = Ring[k]
      /\ \A k \in 1..added : Ring'[used + k] = codes[k]
  BY <1>1, AddBufferAppends DEF IInv
<1> HIDE DEF added
<1>5. Ring' \in [1..used' -> Codes]
  <2>1. \A k \in 1..used' : Ring'[k] \in Codes
    <3> SUFFICES ASSUME NEW k \in 1..used' PROVE Ring'[k] \in Codes
      OBVIOUS
    <3>1. CASE k <= used
      BY <3>1, <1>1, <1>4 DEF IInv, TypeOK
    <3>2. CASE k > used
      <4>1. k - used \in 1..added /\ used + (k - used) = k
        BY <3>2, <1>1, <1>3, <1>4
      <4> QED
        BY <4>1, <1>2, <1>3, <1>4
    <3> QED
      BY <3>1, <3>2, <1>1, <1>4
  <2>2. Ring' = [k \in 1..used' |-> Ring'[k]]
    BY DEF Ring
  <2> QED
    BY <2>1, <2>2
<1>6. Appends
  BY <1>1, <1>3, <1>4 DEF Appends
<1>7. /\ scheduled' = (scheduled \/ (added > 0 /\ ~scheduled /\ ~p60changed))
      /\ transfer' = (transfer \/ (added > 0 /\ ~scheduled /\ ~p60changed))
      /\ lost' = (lost \/ added < Len(codes))
  BY <1>1 DEF AddBuffer, Room, added
<1>8. scheduled' \in BOOLEAN /\ transfer' \in BOOLEAN /\ lost' \in BOOLEAN
  BY <1>7
<1>9. NothingStuck'
  <2>1. scheduled' = transfer'
    BY <1>7 DEF IInv, NothingStuck
  <2>2. p60changed' => irq1' \/ handler' = "entry"
    BY DEF IInv, NothingStuck, port, bios
  <2>3. CASE added = 0
    <3>1. used' = used
      BY <2>3, <1>1, <1>4
    <3> QED
      BY <3>1, <2>1, <2>2, <1>7 DEF IInv, NothingStuck, port
  <2>4. CASE added > 0
    <3>1. transfer' \/ p60changed'
      BY <2>4, <1>7 DEF IInv, NothingStuck, port
    <3> QED
      BY <3>1, <2>1, <2>2 DEF NothingStuck
  <2> QED
    BY <2>3, <2>4, <1>3, <1>1
<1>10. TypeOK'
  BY <1>1, <1>4, <1>5, <1>8 DEF IInv, TypeOK, port, bios
<1> QED
  BY <1>6, <1>9, <1>10 DEF IInv

LEMMA AddKeysPreserves ==
  ASSUME IInv, NEW left \in Seq(Keys), NEW key \in Keys, NEW pressed \in BOOLEAN,
         AddKeys(left, key, pressed), UNCHANGED <<pos, port, bios, command, irq1>>
  PROVE  IInv' /\ Appends
<1> DEFINE leftCodes == [k \in DOMAIN left |-> KeyCodes(left[k], pressed)[1]]
           codes == IF pressed THEN leftCodes \o KeyCodes(key, pressed)
                               ELSE KeyCodes(key, pressed) \o leftCodes
<1>1. leftCodes \in Seq(Codes)
  <2>1. \A k \in 1..Len(left) : left[k] \in Keys
    OBVIOUS
  <2>2. \A k \in 1..Len(left) : KeyCodes(left[k], pressed)[1] \in Codes
    BY <2>1, KeyCodesType
  <2> QED
    BY <2>2
<1>2. codes \in Seq(Codes)
  <2> HIDE DEF leftCodes
  <2>1. KeyCodes(key, pressed) \in Seq(Codes)
    BY KeyCodesType
  <2> QED
    BY <1>1, <2>1
<1>3. AddBuffer(codes)
  BY DEF AddKeys
<1>4. down' \subseteq Keys
  <2>1. ToSet(left) \subseteq Keys
    BY DEF ToSet
  <2> QED
    BY <2>1 DEF AddKeys, IInv, TypeOK
<1>5. /\ repeat' \in [key : Keys \cup {"none"}, wait : Nat]
      /\ repeat'.wait > 0 => repeat'.key \in Keys
  <2>1. RepeatRate \in Nat /\ RepeatPause \in Nat
    BY KeyboardAssumption
  <2> QED
    BY <2>1 DEF AddKeys
<1> HIDE DEF codes
<1> QED
  BY <1>2, <1>3, <1>4, <1>5, AddBufferPreserves

LEMMA KeyEventsPreserve ==
  ASSUME IInv, KeyEvents
  PROVE  IInv' /\ Appends
<1>1. PICK key \in Keys, pressed \in BOOLEAN, m \in SUBSET Modifiers : KeyEvent(key, m \ {key}, pressed)
  BY DEF KeyEvents
<1> DEFINE one(n) == IF n \in m \ {key} THEN <<n>> ELSE <<>>
           left == one("leftctrl") \o one("leftalt") \o one("leftshift")
<1>2. \A n : one(n) \in Seq(Keys)
  <2> SUFFICES ASSUME NEW n PROVE one(n) \in Seq(Keys)
    OBVIOUS
  <2>1. CASE n \in m \ {key}
    <3>1. n \in Keys
      BY <2>1, KeyboardAssumption
    <3>2. one(n) = <<n>>
      BY <2>1
    <3> QED
      BY <3>1, <3>2
  <2>2. CASE n \notin m \ {key}
    BY <2>2
  <2> QED
    BY <2>1, <2>2
<1>3. left \in Seq(Keys)
  <2> HIDE DEF one
  <2>1. one("leftctrl") \in Seq(Keys) /\ one("leftalt") \in Seq(Keys) /\ one("leftshift") \in Seq(Keys)
    BY <1>2
  <2> QED
    BY <2>1
<1>4. AddKeys(left, key, pressed) /\ UNCHANGED <<pos, port, bios, command, irq1>>
  BY <1>1 DEF KeyEvent
<1> HIDE DEF left
<1> QED
  BY <1>3, <1>4, AddKeysPreserves

LEMMA TickPreserves ==
  ASSUME IInv, Tick
  PROVE  IInv' /\ Appends
<1>1. CASE repeat.wait = 1
  <2>1. repeat.key \in Keys /\ <<>> \in Seq(Keys)
    BY <1>1 DEF IInv, TypeOK
  <2>2. AddKeys(<<>>, repeat.key, TRUE) /\ UNCHANGED <<pos, port, bios, command, irq1>>
    BY <1>1 DEF Tick
  <2> QED
    BY <2>1, <2>2, AddKeysPreserves
<1>2. CASE repeat.wait # 1
  <2>1. UNCHANGED <<ring, port, bios, command, irq1, scheduled, transfer, history>>
    BY <1>2 DEF Tick, ring
  <2>2. /\ repeat' \in [key : Keys \cup {"none"}, wait : Nat]
        /\ repeat'.wait > 0 => repeat'.key \in Keys
    BY <1>2 DEF Tick, IInv, TypeOK
  <2>3. Ring' = Ring /\ Appends
    BY <2>1, RingSame DEF IInv
  <2> QED
    BY <2>1, <2>2, <2>3 DEF IInv, TypeOK, NothingStuck, ring, port, bios, history
<1> QED
  BY <1>1, <1>2

LEMMA TransferPreserves ==
  ASSUME IInv, TransferBuffer
  PROVE  IInv' /\ (Appends \/ Takes)
<1>1. CASE used = 0
  <2>1. UNCHANGED <<ring, port, irq1, repeat, bios, command, history>> /\ scheduled' = FALSE /\ transfer' = FALSE
    BY <1>1 DEF TransferBuffer
  <2>2. Ring' = Ring /\ Appends
    BY <2>1, RingSame DEF IInv
  <2>3. TypeOK'
    BY <2>1, <2>2 DEF IInv, TypeOK, ring, port, bios, history
  <2>4. used' = 0 /\ ~(used' > 0)
    BY <1>1, <2>1 DEF ring
  <2>5. NothingStuck'
    BY <2>1, <2>4 DEF IInv, NothingStuck, port, bios
  <2> QED
    BY <2>2, <2>3, <2>5 DEF IInv
<1>2. CASE used # 0
  <2>1. /\ p60data' = buffer[pos] /\ p60changed' = TRUE /\ irq1' = TRUE
        /\ buffer' = [buffer EXCEPT ![pos] = Free]
        /\ pos' = (pos + 1) % KEYBUFSIZE /\ used' = used - 1
        /\ scheduled' = FALSE /\ transfer' = FALSE
        /\ UNCHANGED <<repeat, bios, command, history>>
    BY <1>2 DEF TransferBuffer, SetPort60
  <2>2. used > 0
    BY <1>2 DEF IInv, TypeOK
  <2>3. /\ buffer[pos] = Ring[1] /\ buffer[pos] \in Codes
        /\ used' \in 0..K /\ pos' \in 0..(K - 1)
        /\ buffer' \in [0..(K - 1) -> Codes \cup {Free}]
        /\ \A k \in 1..used' : Ring'[k] = Ring[k + 1]
    BY <2>1, <2>2, TakeFirst DEF IInv
  <2>4. Ring' \in [1..used' -> Codes]
    <3>1. \A k \in 1..used' : k + 1 \in 1..used
      BY <2>1, <2>2 DEF IInv, TypeOK
    <3>2. \A k \in 1..used' : Ring'[k] \in Codes
      BY <2>3, <3>1 DEF IInv, TypeOK
    <3>3. Ring' = [k \in 1..used' |-> Ring'[k]]
      BY DEF Ring
    <3> QED
      BY <3>2, <3>3
  <2>5. Takes
    BY <2>1, <2>2, <2>3 DEF Takes
  <2>6. TypeOK'
    BY <2>1, <2>3, <2>4 DEF IInv, TypeOK, bios, history, K
  <2>7. NothingStuck'
    BY <2>1 DEF NothingStuck
  <2> QED
    BY <2>5, <2>6, <2>7 DEF IInv
<1> QED
  BY <1>1, <1>2

LEMMA ClearPreserves ==
  ASSUME IInv, ClrBufferAndAck, UNCHANGED <<port, repeat, bios, irq1>>,
         command' \in {"none", "leds", "rate", "outport"}
  PROVE  IInv' /\ Clears
<1>1. /\ K \in Nat \ {0} /\ K = KEYBUFSIZE /\ used' = 1 /\ pos' = 0
      /\ buffer' = [n \in DOMAIN buffer |-> IF n = 0 THEN Ack ELSE Free]
      /\ DOMAIN buffer = 0..(K - 1)
  BY KeyboardAssumption DEF ClrBufferAndAck, IInv, TypeOK, K
<1>2. Ack \in Codes
  BY DEF Codes
<1>3. Ring'[1] = Ack /\ Ring' \in [1..used' -> Codes]
  <2>1. 0 \in 0..(K - 1) /\ buffer'[0] = Ack
    BY <1>1
  <2>2. \A k \in 1..1 : (0 + k - 1) % K = 0
    <3>1. 0 % K = 0
      BY <2>1, Wrapped
    <3>2. \A k \in 1..1 : 0 + k - 1 = 0
      OBVIOUS
    <3> QED
      BY <3>1, <3>2
  <2>3. Ring' = [k \in 1..1 |-> buffer'[(0 + k - 1) % K]]
    BY <1>1 DEF Ring
  <2> QED
    BY <1>1, <1>2, <2>1, <2>2, <2>3
<1>4. used' \in 0..KEYBUFSIZE /\ pos' \in 0..(KEYBUFSIZE - 1) /\ buffer' \in [0..(K - 1) -> Codes \cup {Free}]
  BY <1>1, <1>2
<1>5. /\ scheduled' = (~p60changed) /\ transfer' = (~p60changed)
      /\ lost' = (lost \/ used > 0) /\ down' \subseteq Keys
  BY DEF ClrBufferAndAck, Forget, IInv, TypeOK
<1>6. scheduled' \in BOOLEAN /\ transfer' \in BOOLEAN /\ lost' \in BOOLEAN
  BY <1>5
<1>7. NothingStuck'
  BY <1>1, <1>5 DEF IInv, NothingStuck, port, bios
<1>8. TypeOK'
  BY <1>1, <1>3, <1>4, <1>5, <1>6 DEF IInv, TypeOK, port, bios
<1> QED
  BY <1>1, <1>3, <1>7, <1>8 DEF IInv, Clears

\* Steps that leave the ring alone and keep the types need only say what becomes
\* of the flags.
LEMMA OtherPreserves ==
  ASSUME IInv, UNCHANGED ring, UNCHANGED repeat, NothingStuck',
         p60data' \in Codes, al' \in Codes,
         p60changed' \in BOOLEAN, scheduled' \in BOOLEAN, transfer' \in BOOLEAN,
         irq1' \in BOOLEAN, lost' \in BOOLEAN,
         command' \in {"none", "leds", "rate", "outport"},
         handler' \in {"none", "entry", "code"},
         flags' \subseteq Flags, down' \subseteq Keys
  PROVE  IInv' /\ Appends
<1>1. Ring' = Ring /\ Appends
  BY RingSame DEF IInv
<1> QED
  BY <1>1 DEF IInv, TypeOK, ring

LEMMA RestartKeeps ==
  ASSUME IInv, Restart, p60changed' = FALSE, UNCHANGED ring
  PROVE  /\ NothingStuck' /\ scheduled' \in BOOLEAN /\ transfer' \in BOOLEAN
<1>1. /\ scheduled' = (scheduled \/ used > 0)
      /\ transfer' = (transfer \/ (~scheduled /\ used > 0))
      /\ used' = used
  BY DEF Restart, ring
<1> QED
  BY <1>1 DEF IInv, NothingStuck

\* Every step of the keyboard keeps the invariant and treats the ring as a queue.
LEMMA NextPreserves ==
  ASSUME IInv, [Next]_vars
  PROVE  IInv' /\ RingStep
<1>1. CASE KeyEvents
  BY <1>1, KeyEventsPreserve DEF RingStep
<1>2. CASE Tick
  BY <1>2, TickPreserves DEF RingStep
<1>3. CASE TransferBuffer
  BY <1>3, TransferPreserves DEF RingStep
<1>4. ASSUME NEW c \in Commands, SendCommand(c) PROVE IInv' /\ RingStep
  <2>1. command' \in {"none", "leds", "rate", "outport"}
    BY <1>4, KeyboardAssumption DEF SendCommand
  <2> QED
    BY <1>4, <2>1, ClearPreserves DEF SendCommand, RingStep
<1>5. CASE SendParameter
  BY <1>5, ClearPreserves DEF SendParameter, RingStep
<1>6. CASE SetOutputPort
  BY <1>6, OtherPreserves DEF SetOutputPort, IInv, TypeOK, NothingStuck, ring, port, bios, history, RingStep
<1>7. CASE write_p60
  BY <1>4, <1>5, <1>6, <1>7 DEF write_p60
<1>8. CASE Activate
  <2>1. /\ scheduled' = (scheduled \/ (used > 0 /\ ~scheduled /\ ~p60changed))
        /\ transfer' = (transfer \/ (used > 0 /\ ~scheduled /\ ~p60changed))
        /\ UNCHANGED <<ring, port, repeat, bios, command, irq1, history>>
    BY <1>8 DEF Activate
  <2>2. scheduled' \in BOOLEAN /\ transfer' \in BOOLEAN
    BY <2>1
  <2>3. NothingStuck'
    BY <2>1 DEF IInv, NothingStuck, ring, port, bios
  <2> QED
    BY <2>1, <2>2, <2>3, OtherPreserves DEF IInv, TypeOK, port, bios, history, RingStep
<1>9. CASE OutportOnBuffer
  <2>1. Out \in Codes
    BY DEF Codes
  <2> QED
    BY <1>9, <2>1, OtherPreserves
    DEF OutportOnBuffer, SetPort60, Forget, IInv, TypeOK, NothingStuck, ring, bios, RingStep
<1>10. CASE WriteToOutport
  BY <1>10, OtherPreserves DEF WriteToOutport, IInv, TypeOK, NothingStuck, ring, port, bios, history, RingStep
<1>11. CASE Poll
  <2>1. NothingStuck' /\ scheduled' \in BOOLEAN /\ transfer' \in BOOLEAN
    BY <1>11, RestartKeeps DEF Poll, read_p60
  <2> QED
    BY <1>11, <2>1, OtherPreserves DEF Poll, read_p60, Forget, IInv, TypeOK, bios, RingStep
<1>12. CASE TakeIrq1
  BY <1>12, OtherPreserves DEF TakeIrq1, IInv, TypeOK, NothingStuck, ring, port, history, RingStep
<1>13. CASE ReadCode
  <2>1. NothingStuck' /\ scheduled' \in BOOLEAN /\ transfer' \in BOOLEAN
    BY <1>13, RestartKeeps DEF ReadCode, read_p60
  <2> QED
    BY <1>13, <2>1, OtherPreserves DEF ReadCode, read_p60, IInv, TypeOK, history, RingStep
<1>14. CASE HandleCode
  <2>1. AfterCode(flags, al) \subseteq Flags /\ Ack \in Codes
    BY AfterCodeType DEF IInv, TypeOK, Codes
  <2> QED
    BY <1>14, <2>1, OtherPreserves DEF HandleCode, IInv, TypeOK, NothingStuck, ring, port, history, RingStep
<1>15. CASE UNCHANGED vars
  BY <1>15, OtherPreserves DEF vars, IInv, TypeOK, NothingStuck, ring, port, bios, history, RingStep
<1> QED
  BY <1>1, <1>2, <1>3, <1>7, <1>8, <1>9, <1>10, <1>11, <1>12, <1>13, <1>14, <1>15 DEF Next

-----------------------------------------------------------------------------
(* The theorems *)

\* KEYBOARD_Init establishes the invariant.
LEMMA InitIInv ==
  ASSUME Init
  PROVE  IInv
<1>1. Ack \in Codes
  BY DEF Codes
<1>2. Ring \in [1..used -> Codes]
  BY DEF Init, Ring
<1>3. buffer \in [0..(KEYBUFSIZE - 1) -> Codes \cup {Free}]
  BY DEF Init
<1>4. repeat \in [key : Keys \cup {"none"}, wait : Nat] /\ ~(repeat.wait > 0)
  BY DEF Init
<1>5. used \in 0..KEYBUFSIZE /\ pos \in 0..(KEYBUFSIZE - 1)
  BY KeyboardAssumption DEF Init
<1>6. TypeOK
  BY <1>1, <1>2, <1>3, <1>4, <1>5 DEF Init, TypeOK
<1>7. ~(used > 0)
  BY DEF Init
<1>8. NothingStuck
  BY <1>7 DEF Init, NothingStuck
<1> QED
  BY <1>6, <1>8 DEF IInv

\* After KEYBOARD_Init the invariant holds, and no step breaks it.
THEOREM Invariance == Spec => []IInv
<1>1. Init => IInv
  BY InitIInv
<1>2. IInv /\ [Next]_vars => IInv'
  BY NextPreserves
<1> QED
  BY <1>1, <1>2, PTL DEF Spec

\* Every variable keeps its type, and what comes to port 60h is a code that
\* somebody put into the ring.
THEOREM TypeCorrect == Spec => []TypeOK
<1>1. IInv => TypeOK
  BY DEF IInv
<1> QED
  BY <1>1, Invariance, PTL

\* No order of keys, repeats, reads, commands and clearing leaves a code in the
\* ring with nothing under way that would fetch it.
THEOREM NeverStuck == Spec => []NothingStuck
<1>1. IInv => NothingStuck
  BY DEF IInv
<1> QED
  BY <1>1, Invariance, PTL

\* The ring is a queue: a step leaves the codes that are there in their places and
\* adds behind them, or moves the first one to port 60h, or is a command, which
\* leaves the acknowledgement alone.
THEOREM RingIsQueue == Spec => [][RingStep]_vars
<1>1. IInv /\ [Next]_vars => RingStep
  BY NextPreserves
<1> QED
  BY <1>1, Invariance, PTL DEF Spec

-----------------------------------------------------------------------------
(* Handling codes in order *)

\* A set of numbers that is not empty has a least one.
LEMMA Least ==
  ASSUME NEW S \in SUBSET Nat, S # {}
  PROVE  \E n \in S : \A m \in S : n <= m
<1>1. PICK n \in S : \A m \in S : ~(<<m, n>> \in OpToRel(<, Nat))
  BY WFMin, NatLessThanWellFounded
<1>2. \A m \in S : m \in Nat /\ n \in Nat /\ ~(m < n)
  BY <1>1 DEF OpToRel
<1>3. \A m \in S : n <= m
  BY <1>2
<1> QED
  BY <1>3

\* A set that holds 0 and with every number the next one holds all of them.
LEMMA Induction ==
  ASSUME NEW S \in SUBSET Nat, 0 \in S, \A n \in S : n + 1 \in S
  PROVE  S = Nat
<1> SUFFICES ASSUME Nat \ S # {}
             PROVE  FALSE
  OBVIOUS
<1>1. PICK n \in Nat \ S : \A m \in Nat \ S : n <= m
  BY Least
<1>2. n \in Nat /\ n # 0 /\ n - 1 \in Nat /\ ~(n <= n - 1) /\ (n - 1) + 1 = n
  BY <1>1
<1>3. n - 1 \in S
  BY <1>1, <1>2
<1> QED
  BY <1>1, <1>2, <1>3

\* h holds the flags after each of the codes.
Handles(h, f, codes) ==
  h[0] = f /\ \A n \in 1..Len(codes) : h[n] = AfterCode(h[n - 1], codes[n])

\* The function that AfterCodes defines exists.
LEMMA CodesHandled ==
  ASSUME NEW f, NEW codes, Len(codes) \in Nat
  PROVE  \E h : Handles(h, f, codes) /\ AfterCodes(f, codes) = h[Len(codes)]
<1> DEFINE L == Len(codes)
           Next1(s, n) == AfterCode(s, codes[n])
           Step(h, n) == IF n = 0 THEN f ELSE Next1(h[n - 1], n)
           UpTo(m) == \E h : h = [n \in 0..m |-> Step(h, n)]
           good == {m \in Nat : UpTo(m)}
<1> HIDE DEF Next1
<1>1. UpTo(0)
  <2>1. [n \in 0..0 |-> f] = [n \in 0..0 |-> Step([k \in 0..0 |-> f], n)]
    OBVIOUS
  <2> QED
    BY <2>1
<1>2. ASSUME NEW m \in Nat, UpTo(m)
      PROVE  UpTo(m + 1)
  <2>1. PICK h : h = [n \in 0..m |-> Step(h, n)]
    BY <1>2
  <2> DEFINE g == [n \in 0..m + 1 |-> IF n = m + 1 THEN Step(h, m + 1) ELSE h[n]]
  <2>2. \A n \in 0..m : g[n] = h[n]
    OBVIOUS
  <2>3. \A n \in 0..m + 1 : Step(g, n) = Step(h, n)
    <3> HIDE DEF g
    <3>1. \A n \in 0..m + 1 : n = 0 \/ g[n - 1] = h[n - 1]
      BY <2>2
    <3> QED
      BY <3>1
  <2>4. \A n \in 0..m : h[n] = Step(h, n)
    <3> HIDE DEF Step
    <3> QED
      BY <2>1
  <2>5. \A n \in 0..m + 1 : g[n] = Step(g, n)
    <3> HIDE DEF Step
    <3> QED
      BY <2>3, <2>4
  <2>6. g = [n \in 0..m + 1 |-> Step(g, n)]
    <3> HIDE DEF Step
    <3> QED
      BY <2>5
  <2> QED
    BY <2>6
<1>3. good = Nat
  <2> HIDE DEF UpTo
  <2>1. good \in SUBSET Nat /\ 0 \in good /\ \A m \in good : m + 1 \in good
    BY <1>1, <1>2
  <2> HIDE DEF good
  <2> QED
    BY <2>1, Induction
<1>4. UpTo(L)
  <2> HIDE DEF UpTo
  <2> QED
    BY <1>3
<1> DEFINE h == CHOOSE h : h = [n \in 0..L |-> Step(h, n)]
<1>5. h = [n \in 0..L |-> Step(h, n)]
  <2> HIDE DEF Step
  <2> QED
    BY <1>4
<1>6. AfterCodes(f, codes) = h[L]
  BY DEF AfterCodes, Next1
<1>7. h[0] = f /\ \A n \in 1..L : h[n] = AfterCode(h[n - 1], codes[n])
  <2> HIDE DEF h
  <2> QED
    BY <1>5 DEF Next1
<1> HIDE DEF h
<1> QED
  BY <1>6, <1>7 DEF Handles

\* Any such function ends in the same flags.
LEMMA HandlesSame ==
  ASSUME NEW f, NEW codes, Len(codes) \in Nat, NEW h, Handles(h, f, codes)
  PROVE  AfterCodes(f, codes) = h[Len(codes)]
<1>1. PICK g : Handles(g, f, codes) /\ AfterCodes(f, codes) = g[Len(codes)]
  BY CodesHandled
<1> DEFINE good == {n \in Nat : n <= Len(codes) => g[n] = h[n]}
<1>2. good \in SUBSET Nat /\ 0 \in good
  BY <1>1 DEF Handles
<1>3. ASSUME NEW n \in good
      PROVE  n + 1 \in good
  <2> SUFFICES ASSUME n + 1 <= Len(codes)
               PROVE  g[n + 1] = h[n + 1]
    OBVIOUS
  <2>1. n + 1 \in 1..Len(codes) /\ (n + 1) - 1 = n /\ g[n] = h[n]
    OBVIOUS
  <2> QED
    BY <1>1, <2>1 DEF Handles
<1>4. good = Nat
  <2> HIDE DEF good
  <2> QED
    BY <1>2, <1>3, Induction
<1>5. Len(codes) \in good
  <2> HIDE DEF good
  <2> QED
    BY <1>4
<1> QED
  BY <1>1, <1>5

\* Of no codes, of one and of two.
LEMMA HandleFew ==
  ASSUME NEW f, NEW codes \in Seq(Codes)
  PROVE  /\ Len(codes) = 0 => AfterCodes(f, codes) = f
         /\ Len(codes) = 1 => AfterCodes(f, codes) = AfterCode(f, codes[1])
         /\ Len(codes) = 2 => AfterCodes(f, codes) = AfterCode(AfterCode(f, codes[1]), codes[2])
<1>1. PICK h : Handles(h, f, codes) /\ AfterCodes(f, codes) = h[Len(codes)]
  BY CodesHandled
<1>2. /\ Len(codes) >= 1 => h[1] = AfterCode(f, codes[1])
      /\ Len(codes) >= 2 => h[2] = AfterCode(h[1], codes[2])
  BY <1>1 DEF Handles
<1> QED
  BY <1>1, <1>2 DEF Handles

\* Codes that come behind others are handled after them.
LEMMA HandleMore ==
  ASSUME NEW f, NEW codes \in Seq(Codes), NEW more \in Seq(Codes)
  PROVE  AfterCodes(f, codes \o more) = AfterCodes(AfterCodes(f, codes), more)
<1>1. PICK g : Handles(g, f, codes) /\ AfterCodes(f, codes) = g[Len(codes)]
  BY CodesHandled
<1>2. PICK h : Handles(h, g[Len(codes)], more) /\ AfterCodes(g[Len(codes)], more) = h[Len(more)]
  BY CodesHandled
<1> DEFINE m == Len(codes)
           all == codes \o more
           j == [n \in 0..(m + Len(more)) |-> IF n <= m THEN g[n] ELSE h[n - m]]
<1>3. /\ m \in Nat /\ Len(more) \in Nat /\ Len(all) = m + Len(more) /\ h[0] = g[m]
      /\ \A n \in 1..m : all[n] = codes[n]
      /\ \A n \in 1..Len(more) : all[m + n] = more[n]
  BY <1>2 DEF Handles
<1> HIDE DEF all
<1>4. Handles(j, f, all)
  <2>1. j[0] = f
    BY <1>1, <1>3 DEF Handles
  <2>2. ASSUME NEW n \in 1..Len(all)
        PROVE  j[n] = AfterCode(j[n - 1], all[n])
    <3>1. CASE n <= m
      <4>1. n \in 1..m /\ n - 1 \in 0..m
        BY <1>3, <3>1
      <4>2. j[n] = g[n] /\ j[n - 1] = g[n - 1]
        BY <1>3, <4>1
      <4> QED
        BY <1>1, <1>3, <4>1, <4>2 DEF Handles
    <3>2. CASE n > m
      <4>1. n - m \in 1..Len(more) /\ m + (n - m) = n /\ (n - m) - 1 = (n - 1) - m
        BY <1>3, <3>2
      <4>2. j[n] = h[n - m]
        BY <1>3, <3>2
      <4>3. j[n - 1] = h[(n - m) - 1]
        <5>1. CASE n - 1 = m
          BY <1>3, <4>1, <5>1
        <5>2. CASE n - 1 # m
          BY <1>3, <3>2, <4>1, <5>2
        <5> QED
          BY <5>1, <5>2
      <4>4. all[n] = more[n - m]
        BY <1>3, <4>1
      <4>5. h[n - m] = AfterCode(h[(n - m) - 1], more[n - m])
        BY <1>2, <4>1 DEF Handles
      <4> QED
        BY <4>2, <4>3, <4>4, <4>5
    <3> QED
      BY <1>3, <3>1, <3>2
  <2> HIDE DEF j
  <2> QED
    BY <2>1, <2>2 DEF Handles
<1>5. AfterCodes(f, all) = j[Len(all)]
  <2>1. Len(all) \in Nat
    BY <1>3
  <2> HIDE DEF j
  <2> QED
    BY <1>4, <2>1, HandlesSame
<1>6. j[Len(all)] = h[Len(more)]
  BY <1>3
<1> QED
  BY <1>1, <1>2, <1>5, <1>6 DEF all

\* The first code is handled before the others.
LEMMA HandleFirst ==
  ASSUME NEW f, NEW codes \in Seq(Codes), NEW c \in Codes
  PROVE  AfterCodes(f, <<c>> \o codes) = AfterCodes(AfterCode(f, c), codes)
<1>1. PICK one : one = <<c>>
  OBVIOUS
<1>2. one \in Seq(Codes) /\ Len(one) = 1 /\ one[1] = c
  BY <1>1
<1>3. AfterCodes(f, one) = AfterCode(f, c)
  BY <1>2, HandleFew
<1>4. AfterCodes(f, one \o codes) = AfterCodes(AfterCode(f, c), codes)
  BY <1>2, <1>3, HandleMore
<1> QED
  BY <1>1, <1>4

-----------------------------------------------------------------------------
(* What the codes of a key show *)

\* A key that is pressed, repeats or is released.
Moved(keys, key, pressed) == IF pressed THEN keys \cup {key} ELSE keys \ {key}

\* What each code does to the flags.
\* The code of a key that goes down, and of one that comes up.
Down(name) == <<name, TRUE>>
Up(name)   == <<name, FALSE>>

LEMMA CodeDown ==
  ASSUME NEW f, NEW name
  PROVE  /\ name = "ctrl" => AfterCode(f, Down(name))
              = (f \cup {"ctrl", IF "e0" \in f THEN "rctrl" ELSE "lctrl"}) \ {"e0"}
         /\ name = "alt" => AfterCode(f, Down(name))
              = (f \cup {"alt", IF "e0" \in f THEN "ralt" ELSE "lalt"}) \ {"e0"}
         /\ name = "leftshift" => AfterCode(f, Down(name)) = (f \cup {"shift"}) \ {"e0"}
         /\ name = "numlock" => AfterCode(f, Down(name)) = (f \cup {"numdown"}) \ {"e0"}
         /\ name \notin {"ctrl", "alt", "leftshift", "numlock"} => AfterCode(f, Down(name)) = f \ {"e0"}
<1>1. CASE name = "ctrl"
  BY <1>1 DEF AfterCode, Pressed, E0, Down
<1>2. CASE name = "alt"
  BY <1>2 DEF AfterCode, Pressed, E0, Down
<1>3. CASE name = "leftshift"
  BY <1>3 DEF AfterCode, E0, Down
<1>4. CASE name = "numlock"
  BY <1>4 DEF AfterCode, E0, Down
<1>5. CASE name \notin {"ctrl", "alt", "leftshift", "numlock"}
  BY <1>5 DEF AfterCode, E0, Down
<1> QED
  BY <1>1, <1>2, <1>3, <1>4, <1>5

LEMMA CodeUp ==
  ASSUME NEW f, NEW name
  PROVE  /\ name = "ctrl" => AfterCode(f, Up(name))
              = (f \ (IF "e0" \in f THEN IF "lctrl" \in f THEN {"rctrl"} ELSE {"rctrl", "ctrl"}
                      ELSE IF "rctrl" \in f THEN {"lctrl"} ELSE {"lctrl", "ctrl"})) \ {"e0"}
         /\ name = "alt" => AfterCode(f, Up(name))
              = (f \ (IF "e0" \in f THEN IF "lalt" \in f THEN {"ralt"} ELSE {"ralt", "alt"}
                      ELSE IF "ralt" \in f THEN {"lalt"} ELSE {"lalt", "alt"})) \ {"e0"}
         /\ name = "leftshift" => AfterCode(f, Up(name)) = (f \ {"shift"}) \ {"e0"}
         /\ name = "numlock" =>
              AfterCode(f, Up(name)) \in {((f \ {"numlock"}) \ {"numdown"}) \ {"e0"},
                                          ((f \cup {"numlock"}) \ {"numdown"}) \ {"e0"}}
         /\ name = "e0" => AfterCode(f, Up(name)) = f \cup {"e0"}
         /\ name \notin {"ctrl", "alt", "leftshift", "numlock", "e0"} => AfterCode(f, Up(name)) = f \ {"e0"}
<1>1. CASE name = "ctrl"
  BY <1>1 DEF AfterCode, Released, E0, Up
<1>2. CASE name = "alt"
  BY <1>2 DEF AfterCode, Released, E0, Up
<1>3. CASE name = "leftshift"
  BY <1>3 DEF AfterCode, E0, Up
<1>4. CASE name = "numlock"
  BY <1>4 DEF AfterCode, E0, Up
<1>5. CASE name = "e0"
  BY <1>5 DEF AfterCode, E0, Up
<1>6. CASE name \notin {"ctrl", "alt", "leftshift", "numlock", "e0"}
  BY <1>6 DEF AfterCode, E0, Up
<1> QED
  BY <1>1, <1>2, <1>3, <1>4, <1>5, <1>6

LEMMA PlainCode ==
  ASSUME NEW f, NEW keys, Shows(f, keys), NEW key \in Keys, NEW pressed \in BOOLEAN,
         key \notin DOMAIN Extended, NEW c, c = KeyCodes(key, pressed)[1]
  PROVE  Shows(AfterCode(f, c), Moved(keys, key, pressed))
<1>1. key \notin {"rightctrl", "rightalt", "ctrl", "alt", "e0"}
  BY KeyboardAssumption DEF Extended
<1> DEFINE name == CASE key = "leftctrl" -> "ctrl"
                     [] key = "leftalt"  -> "alt"
                     [] OTHER            -> key
<1>2. c = <<name, pressed>>
  BY <1>1 DEF KeyCodes, Extended, Plain
<1>3. /\ key = "leftctrl" => name = "ctrl"
      /\ key = "leftalt" => name = "alt"
      /\ key \notin {"leftctrl", "leftalt"} => name = key
  OBVIOUS
<1>4. key \notin {"leftctrl", "leftalt", "leftshift", "numlock"}
        => name \notin {"ctrl", "alt", "leftshift", "numlock", "e0"}
  BY <1>1, <1>3
<1> HIDE DEF name
<1>5. CASE pressed = TRUE
  <2>1. c = Down(name) /\ Moved(keys, key, pressed) = keys \cup {key}
    BY <1>2, <1>5 DEF Moved, Down
  <2>2. CASE key = "leftctrl"
    <3>1. AfterCode(f, c) = (f \cup {"ctrl", "lctrl"}) \ {"e0"}
      BY <1>3, <2>1, <2>2, CodeDown DEF Shows
    <3> QED
      BY <2>1, <2>2, <3>1 DEF Shows
  <2>3. CASE key = "leftalt"
    <3>1. AfterCode(f, c) = (f \cup {"alt", "lalt"}) \ {"e0"}
      BY <1>3, <2>1, <2>3, CodeDown DEF Shows
    <3> QED
      BY <2>1, <2>3, <3>1 DEF Shows
  <2>4. CASE key = "leftshift"
    <3>1. AfterCode(f, c) = (f \cup {"shift"}) \ {"e0"}
      BY <1>3, <2>1, <2>4, CodeDown
    <3> QED
      BY <2>1, <2>4, <3>1 DEF Shows
  <2>5. CASE key = "numlock"
    <3>1. AfterCode(f, c) = (f \cup {"numdown"}) \ {"e0"}
      BY <1>3, <2>1, <2>5, CodeDown
    <3> QED
      BY <2>1, <2>5, <3>1 DEF Shows
  <2>6. CASE key \notin {"leftctrl", "leftalt", "leftshift", "numlock"}
    <3>1. AfterCode(f, c) = f \ {"e0"}
      BY <1>3, <1>4, <2>1, <2>6, CodeDown
    <3> QED
      BY <1>1, <2>1, <2>6, <3>1 DEF Shows
  <2> QED
    BY <2>2, <2>3, <2>4, <2>5, <2>6
<1>6. CASE ~pressed
  <2>1. c = Up(name) /\ Moved(keys, key, pressed) = keys \ {key}
    BY <1>2, <1>6 DEF Moved, Up
  <2>2. CASE key = "leftctrl"
    <3>1. AfterCode(f, c) = (f \ IF "rctrl" \in f THEN {"lctrl"} ELSE {"lctrl", "ctrl"}) \ {"e0"}
      BY <1>3, <2>1, <2>2, CodeUp DEF Shows
    <3> QED
      BY <2>1, <2>2, <3>1 DEF Shows
  <2>3. CASE key = "leftalt"
    <3>1. AfterCode(f, c) = (f \ IF "ralt" \in f THEN {"lalt"} ELSE {"lalt", "alt"}) \ {"e0"}
      BY <1>3, <2>1, <2>3, CodeUp DEF Shows
    <3> QED
      BY <2>1, <2>3, <3>1 DEF Shows
  <2>4. CASE key = "leftshift"
    <3>1. AfterCode(f, c) = (f \ {"shift"}) \ {"e0"}
      BY <1>3, <2>1, <2>4, CodeUp
    <3> QED
      BY <2>1, <2>4, <3>1 DEF Shows
  <2>5. CASE key = "numlock"
    <3>1. AfterCode(f, c) \in {((f \ {"numlock"}) \ {"numdown"}) \ {"e0"},
                              ((f \cup {"numlock"}) \ {"numdown"}) \ {"e0"}}
      BY <1>3, <2>1, <2>5, CodeUp
    <3> QED
      BY <2>1, <2>5, <3>1 DEF Shows
  <2>6. CASE key \notin {"leftctrl", "leftalt", "leftshift", "numlock"}
    <3>1. AfterCode(f, c) = f \ {"e0"}
      BY <1>3, <1>4, <2>1, <2>6, CodeUp
    <3> QED
      BY <1>1, <2>1, <2>6, <3>1 DEF Shows
  <2> QED
    BY <2>2, <2>3, <2>4, <2>5, <2>6
<1> QED
  BY <1>5, <1>6

LEMMA ExtendedCodes ==
  ASSUME NEW f, NEW keys, Shows(f, keys), NEW key \in {"rightctrl", "rightalt"}, NEW pressed \in BOOLEAN
  PROVE  Shows(AfterCode(AfterCode(f, E0), <<Extended[key], pressed>>), Moved(keys, key, pressed))
<1>1. PICK g : g = f \cup {"e0"}
  OBVIOUS
<1>2. AfterCode(f, E0) = g
  <2>1. E0 = Up("e0")
    BY DEF E0, Up
  <2> QED
    BY <1>1, <2>1, CodeUp
<1>3. "e0" \in g /\ \A x : x # "e0" => (x \in g <=> x \in f)
  BY <1>1
<1>4. PICK c : c = <<Extended[key], pressed>>
  OBVIOUS
<1>5. CASE key = "rightctrl"
  <2>1. c = IF pressed THEN Down("ctrl") ELSE Up("ctrl")
    BY <1>4, <1>5 DEF Extended, Down, Up
  <2>2. CASE pressed = TRUE
    <3>1. AfterCode(g, c) = (g \cup {"ctrl", "rctrl"}) \ {"e0"}
      BY <1>3, <2>1, <2>2, CodeDown
    <3> QED
      BY <1>2, <1>3, <1>4, <1>5, <2>2, <3>1 DEF Shows, Moved
  <2>3. CASE ~pressed
    <3>1. AfterCode(g, c) = (g \ IF "lctrl" \in g THEN {"rctrl"} ELSE {"rctrl", "ctrl"}) \ {"e0"}
      BY <1>3, <2>1, <2>3, CodeUp
    <3> QED
      BY <1>2, <1>3, <1>4, <1>5, <2>3, <3>1 DEF Shows, Moved
  <2> QED
    BY <2>2, <2>3
<1>6. CASE key = "rightalt"
  <2>1. c = IF pressed THEN Down("alt") ELSE Up("alt")
    BY <1>4, <1>6 DEF Extended, Down, Up
  <2>2. CASE pressed = TRUE
    <3>1. AfterCode(g, c) = (g \cup {"alt", "ralt"}) \ {"e0"}
      BY <1>3, <2>1, <2>2, CodeDown
    <3> QED
      BY <1>2, <1>3, <1>4, <1>6, <2>2, <3>1 DEF Shows, Moved
  <2>3. CASE ~pressed
    <3>1. AfterCode(g, c) = (g \ IF "lalt" \in g THEN {"ralt"} ELSE {"ralt", "alt"}) \ {"e0"}
      BY <1>3, <2>1, <2>3, CodeUp
    <3> QED
      BY <1>2, <1>3, <1>4, <1>6, <2>3, <3>1 DEF Shows, Moved
  <2> QED
    BY <2>2, <2>3
<1> QED
  BY <1>5, <1>6

\* All codes of a key.
LEMMA KeyShown ==
  ASSUME NEW f, NEW keys, Shows(f, keys), NEW key \in Keys, NEW pressed \in BOOLEAN
  PROVE  Shows(AfterCodes(f, KeyCodes(key, pressed)), Moved(keys, key, pressed))
<1>1. KeyCodes(key, pressed) \in Seq(Codes)
  BY KeyCodesType
<1>2. CASE key \in DOMAIN Extended
  <2>1. key \in {"rightctrl", "rightalt"}
    BY <1>2 DEF Extended
  <2>2. PICK codes : codes = KeyCodes(key, pressed)
    OBVIOUS
  <2>3. codes = <<E0, <<Extended[key], pressed>>>>
    <3>1. key \notin DOMAIN Plain
      BY <2>1 DEF Plain
    <3> QED
      BY <1>2, <2>2, <3>1 DEF KeyCodes
  <2>4. codes \in Seq(Codes) /\ Len(codes) = 2 /\ codes[1] = E0 /\ codes[2] = <<Extended[key], pressed>>
    BY <1>1, <2>2, <2>3
  <2>5. AfterCodes(f, codes) = AfterCode(AfterCode(f, codes[1]), codes[2])
    BY <2>4, HandleFew
  <2> QED
    BY <2>1, <2>2, <2>4, <2>5, ExtendedCodes
<1>3. CASE key \notin DOMAIN Extended
  <2>1. Len(KeyCodes(key, pressed)) = 1
    BY <1>3 DEF KeyCodes
  <2>2. AfterCodes(f, KeyCodes(key, pressed)) = AfterCode(f, KeyCodes(key, pressed)[1])
    BY <1>1, <2>1, HandleFew
  <2>3. PICK c : c = KeyCodes(key, pressed)[1]
    OBVIOUS
  <2> QED
    BY <1>3, <2>2, <2>3, PlainCode
<1> QED
  BY <1>2, <1>3

\* The codes of the left modifiers of an event.
LEMMA ModifiersShown ==
  ASSUME NEW f, NEW keys, Shows(f, keys), NEW left \in Seq(Modifiers), NEW pressed \in BOOLEAN,
         NEW codes \in Seq(Codes), codes = [k \in DOMAIN left |-> KeyCodes(left[k], pressed)[1]]
  PROVE  Shows(AfterCodes(f, codes), IF pressed THEN keys \cup ToSet(left) ELSE keys \ ToSet(left))
<1> DEFINE L == Len(codes)
           Some(n) == {left[k] : k \in 1..n}
           After1(n) == IF pressed THEN keys \cup Some(n) ELSE keys \ Some(n)
<1>1. L = Len(left) /\ L \in Nat /\ DOMAIN left = 1..L /\ \A k \in 1..L : left[k] \in Modifiers
  OBVIOUS
<1>2. PICK h : Handles(h, f, codes) /\ AfterCodes(f, codes) = h[L]
  BY <1>1, CodesHandled
<1> DEFINE good == {n \in Nat : n <= L => Shows(h[n], After1(n))}
<1>3. good \in SUBSET Nat /\ 0 \in good
  <2>1. Some(0) = {} /\ After1(0) = keys
    OBVIOUS
  <2> QED
    BY <1>2, <2>1 DEF Handles
<1>4. ASSUME NEW n \in good
      PROVE  n + 1 \in good
  <2> SUFFICES ASSUME n + 1 <= L
               PROVE  Shows(h[n + 1], After1(n + 1))
    OBVIOUS
  <2>1. n + 1 \in 1..L /\ (n + 1) - 1 = n /\ Shows(h[n], After1(n))
    BY <1>1
  <2>2. h[n + 1] = AfterCode(h[n], codes[n + 1]) /\ codes[n + 1] = KeyCodes(left[n + 1], pressed)[1]
    BY <1>1, <1>2, <2>1 DEF Handles
  <2>3. left[n + 1] \in Keys /\ left[n + 1] \notin DOMAIN Extended
    BY <1>1, <2>1, KeyboardAssumption DEF Extended
  <2>4. Moved(After1(n), left[n + 1], pressed) = After1(n + 1)
    <3>1. Some(n + 1) = Some(n) \cup {left[n + 1]}
      <4>1. 1..(n + 1) = (1..n) \cup {n + 1}
        BY <2>1
      <4> QED
        BY <4>1
    <3> HIDE DEF Some
    <3> QED
      BY <3>1 DEF Moved
  <2> HIDE DEF After1, good
  <2> QED
    BY <2>1, <2>2, <2>3, <2>4, PlainCode
<1>5. good = Nat
  <2> HIDE DEF good
  <2> QED
    BY <1>3, <1>4, Induction
<1>6. L \in good
  <2> HIDE DEF good
  <2> QED
    BY <1>1, <1>5
<1>7. Some(L) = ToSet(left)
  BY <1>1 DEF ToSet
<1>8. Shows(h[L], After1(L))
  <2> HIDE DEF After1
  <2> QED
    BY <1>1, <1>6
<1> HIDE DEF Some
<1> QED
  BY <1>2, <1>7, <1>8

-----------------------------------------------------------------------------
(* The codes in flight *)

\* Until a code is dropped or seen out of turn, exactly one of the line and the
\* handler's entry stands for the code in port 60h, and no transfer is under way
\* that would overwrite it.
InTurn ==
  ~lost =>
    /\ p60changed <=> (irq1 \/ handler = "entry")
    /\ ~(irq1 /\ handler = "entry")
    /\ ~(transfer /\ p60changed)

\* The flags when the handler is done, and when it has also read the port.
AtPort == IF handler = "code" THEN AfterCode(flags, al) ELSE flags
AtRing == IF p60changed THEN AfterCode(AtPort, p60data) ELSE AtPort

\* A place that may hold a code, and the flags once it has been handled.
Held(full, c) == IF full THEN <<c>> ELSE <<>>
Past(f, full, c) == IF full THEN AfterCode(f, c) ELSE f

\* What the three parts of the way do, one after the other.
LEMMA WayIs ==
  ASSUME NEW f, NEW coded \in BOOLEAN, NEW a \in Codes, NEW full \in BOOLEAN, NEW c \in Codes,
         NEW r \in Seq(Codes)
  PROVE  AfterCodes(f, (Held(coded, a) \o Held(full, c)) \o r) = AfterCodes(Past(Past(f, coded, a), full, c), r)
<1>1. ASSUME NEW g, NEW b \in BOOLEAN, NEW d \in Codes
      PROVE  Held(b, d) \in Seq(Codes) /\ AfterCodes(g, Held(b, d)) = Past(g, b, d)
  <2>1. PICK one : one = Held(b, d)
    OBVIOUS
  <2>2. /\ one \in Seq(Codes)
        /\ IF b THEN Len(one) = 1 /\ one[1] = d ELSE Len(one) = 0
    BY <2>1 DEF Held
  <2>3. AfterCodes(g, one) = Past(g, b, d)
    BY <2>2, HandleFew DEF Past
  <2> QED
    BY <2>1, <2>2, <2>3
<1>2. PICK first : first = Held(coded, a)
  OBVIOUS
<1>3. PICK second : second = Held(full, c)
  OBVIOUS
<1>4. first \in Seq(Codes) /\ second \in Seq(Codes)
  BY <1>1, <1>2, <1>3
<1>5. AfterCodes(f, first) = Past(f, coded, a)
  BY <1>1, <1>2
<1>6. AfterCodes(Past(f, coded, a), second) = Past(Past(f, coded, a), full, c)
  BY <1>1, <1>3
<1>7. first \o second \in Seq(Codes)
  BY <1>4
<1>8. AfterCodes(f, (first \o second) \o r) = AfterCodes(AfterCodes(f, first \o second), r)
  BY <1>7, HandleMore
<1>9. AfterCodes(f, first \o second) = AfterCodes(AfterCodes(f, first), second)
  BY <1>4, HandleMore
<1> QED
  BY <1>2, <1>3, <1>5, <1>6, <1>8, <1>9

LEMMA RingIsSeq ==
  /\ TypeOK => Ring \in Seq(Codes) /\ Len(Ring) = used
  /\ TypeOK' => Ring' \in Seq(Codes) /\ Len(Ring') = used'
<1>1. ASSUME NEW n \in Nat, NEW r \in [1..n -> Codes]
      PROVE  r \in Seq(Codes) /\ Len(r) = n
  OBVIOUS
<1>2. TypeOK => used \in Nat /\ Ring \in [1..used -> Codes]
  BY KeyboardAssumption DEF TypeOK
<1>3. TypeOK' => used' \in Nat /\ Ring' \in [1..used' -> Codes]
  BY KeyboardAssumption DEF TypeOK
<1> QED
  BY <1>1, <1>2, <1>3

LEMMA WayNow ==
  ASSUME TypeOK
  PROVE  AfterCodes(flags, InFlight) = AfterCodes(AtRing, Ring)
<1>1. PICK coded \in BOOLEAN, full \in BOOLEAN : coded = (handler = "code") /\ full = p60changed
  BY DEF TypeOK
<1>2. al \in Codes /\ p60data \in Codes /\ Ring \in Seq(Codes)
  BY RingIsSeq DEF TypeOK
<1>3. AtRing = Past(Past(flags, coded, al), full, p60data)
  BY <1>1 DEF AtPort, AtRing, Past
<1>4. InFlight = (Held(coded, al) \o Held(full, p60data)) \o Ring
  BY <1>1 DEF InFlight, Held
<1> QED
  BY <1>2, <1>3, <1>4, WayIs

LEMMA WayNext ==
  ASSUME TypeOK'
  PROVE  AfterCodes(flags', InFlight') = AfterCodes(AtRing', Ring')
<1>1. PICK coded \in BOOLEAN, full \in BOOLEAN : coded = (handler' = "code") /\ full = p60changed'
  BY DEF TypeOK
<1>2. al' \in Codes /\ p60data' \in Codes /\ Ring' \in Seq(Codes)
  BY RingIsSeq DEF TypeOK
<1>3. AtRing' = Past(Past(flags', coded, al'), full, p60data')
  BY <1>1 DEF AtPort, AtRing, Past
<1>4. InFlight' = (Held(coded, al') \o Held(full, p60data')) \o Ring'
  BY <1>1 DEF InFlight, Held
<1> QED
  BY <1>2, <1>3, <1>4, WayIs

\* The members of two sequences in a row.
LEMMA Joined ==
  ASSUME NEW a \in Seq(Codes), NEW b \in Seq(Codes)
  PROVE  \A i \in 1..(Len(a) + Len(b)) :
           (a \o b)[i] = IF i <= Len(a) THEN a[i] ELSE b[i - Len(a)]
OBVIOUS

\* A sequence is its first member and the rest.
LEMMA FirstAndRest ==
  ASSUME NEW r \in Seq(Codes), NEW t \in Seq(Codes), Len(r) = Len(t) + 1,
         \A k \in 1..Len(t) : t[k] = r[k + 1]
  PROVE  r = <<r[1]>> \o t /\ r[1] \in Codes
<1>1. PICK one : one = <<r[1]>>
  OBVIOUS
<1>2. r[1] \in Codes /\ one \in Seq(Codes) /\ Len(one) = 1 /\ one[1] = r[1]
  BY <1>1
<1>3. PICK s : s = one \o t
  OBVIOUS
<1>4. s \in Seq(Codes) /\ Len(s) = Len(r)
  <2>1. one \o t \in Seq(Codes) /\ Len(one \o t) = Len(one) + Len(t)
    BY <1>2, ConcatProperties
  <2> QED
    BY <1>2, <1>3, <2>1
<1>5. \A k \in 1..Len(r) : s[k] = r[k]
  <2> SUFFICES ASSUME NEW k \in 1..Len(r) PROVE s[k] = r[k]
    OBVIOUS
  <2>1. CASE k = 1
    BY <1>2, <1>3, <2>1, ConcatProperties
  <2>2. CASE k # 1
    <3>1. k - 1 \in 1..Len(t) /\ (k - 1) + 1 = k
      BY <2>2
    <3>2. k \in 1..(Len(one) + Len(t)) /\ ~(k <= Len(one)) /\ k - Len(one) = k - 1
      BY <1>2, <2>2
    <3>3. \A i \in 1..(Len(one) + Len(t)) :
            (one \o t)[i] = IF i <= Len(one) THEN one[i] ELSE t[i - Len(one)]
      BY <1>2, Joined
    <3> QED
      BY <1>3, <3>1, <3>2, <3>3
  <2> QED
    BY <2>1, <2>2
<1>6. s = r
  BY <1>4, <1>5
<1> QED
  BY <1>1, <1>2, <1>3, <1>6

\* What follows others in the ring.
LEMMA BehindOthers ==
  ASSUME NEW r \in Seq(Codes), NEW codes \in Seq(Codes), NEW t \in Seq(Codes),
         Len(t) = Len(r) + Len(codes),
         \A k \in 1..Len(r) : t[k] = r[k],
         \A k \in 1..Len(codes) : t[Len(r) + k] = codes[k]
  PROVE  t = r \o codes
<1>1. PICK s : s = r \o codes
  OBVIOUS
<1>2. s \in Seq(Codes) /\ Len(s) = Len(t)
  BY <1>1
<1>3. \A k \in 1..Len(t) : s[k] = t[k]
  <2> SUFFICES ASSUME NEW k \in 1..Len(t) PROVE s[k] = t[k]
    OBVIOUS
  <2>1. CASE k <= Len(r)
    BY <1>1, <2>1
  <2>2. CASE k > Len(r)
    <3>1. k - Len(r) \in 1..Len(codes) /\ Len(r) + (k - Len(r)) = k
      BY <2>2
    <3>2. s[k] = codes[k - Len(r)]
      BY <1>1, <2>2
    <3> QED
      BY <3>1, <3>2
  <2> QED
    BY <2>1, <2>2
<1> QED
  BY <1>1, <1>2, <1>3

-----------------------------------------------------------------------------
(* The flags follow the keys *)

FInv == IInv /\ FlagsFollowKeys /\ InTurn

\* What an event or a repeat sends shows what it does to the keys.
LEMMA EventShown ==
  ASSUME NEW f, NEW keys, Shows(f, keys), NEW left \in Seq(Modifiers), NEW key \in Keys,
         NEW pressed \in BOOLEAN, NEW leftCodes \in Seq(Codes),
         leftCodes = [k \in DOMAIN left |-> KeyCodes(left[k], pressed)[1]]
  PROVE  Shows(AfterCodes(f, IF pressed THEN leftCodes \o KeyCodes(key, pressed)
                                         ELSE KeyCodes(key, pressed) \o leftCodes),
               IF pressed THEN keys \cup ({key} \cup ToSet(left)) ELSE keys \ ({key} \cup ToSet(left)))
<1>1. KeyCodes(key, pressed) \in Seq(Codes)
  BY KeyCodesType
<1>2. CASE pressed
  <2>1. Shows(AfterCodes(f, leftCodes), keys \cup ToSet(left))
    BY <1>2, ModifiersShown
  <2>2. Shows(AfterCodes(AfterCodes(f, leftCodes), KeyCodes(key, pressed)),
              Moved(keys \cup ToSet(left), key, pressed))
    BY <2>1, KeyShown
  <2>3. Moved(keys \cup ToSet(left), key, pressed) = keys \cup ({key} \cup ToSet(left))
    BY <1>2 DEF Moved
  <2>4. AfterCodes(f, leftCodes \o KeyCodes(key, pressed))
          = AfterCodes(AfterCodes(f, leftCodes), KeyCodes(key, pressed))
    BY <1>1, HandleMore
  <2> QED
    BY <1>2, <2>2, <2>3, <2>4
<1>3. CASE ~pressed
  <2>1. Shows(AfterCodes(f, KeyCodes(key, pressed)), keys \ {key})
    BY <1>3, KeyShown DEF Moved
  <2>2. Shows(AfterCodes(AfterCodes(f, KeyCodes(key, pressed)), leftCodes), (keys \ {key}) \ ToSet(left))
    BY <1>3, <2>1, ModifiersShown
  <2>3. (keys \ {key}) \ ToSet(left) = keys \ ({key} \cup ToSet(left))
    OBVIOUS
  <2>4. AfterCodes(f, KeyCodes(key, pressed) \o leftCodes)
          = AfterCodes(AfterCodes(f, KeyCodes(key, pressed)), leftCodes)
    BY <1>1, HandleMore
  <2> QED
    BY <1>3, <2>2, <2>3, <2>4
<1> QED
  BY <1>2, <1>3

LEMMA AddKeysFollows ==
  ASSUME FInv, NEW left \in Seq(Modifiers), NEW key \in Keys, NEW pressed \in BOOLEAN,
         AddKeys(left, key, pressed), UNCHANGED <<pos, port, bios, command, irq1>>, TypeOK'
  PROVE  FlagsFollowKeys' /\ InTurn'
<1>1. PICK leftCodes : leftCodes = [k \in DOMAIN left |-> KeyCodes(left[k], pressed)[1]]
  OBVIOUS
<1>2. PICK codes : codes = IF pressed THEN leftCodes \o KeyCodes(key, pressed)
                                      ELSE KeyCodes(key, pressed) \o leftCodes
  OBVIOUS
<1>3. leftCodes \in Seq(Codes)
  <2>1. \A k \in 1..Len(left) : left[k] \in Keys
    <3>1. \A k \in 1..Len(left) : left[k] \in Modifiers
      OBVIOUS
    <3> QED
      BY <3>1, KeyboardAssumption
  <2>2. \A k \in 1..Len(left) : KeyCodes(left[k], pressed)[1] \in Codes
    BY <2>1, KeyCodesType
  <2> QED
    BY <1>1, <2>2
<1>4. codes \in Seq(Codes)
  <2>1. KeyCodes(key, pressed) \in Seq(Codes)
    BY KeyCodesType
  <2> QED
    BY <1>2, <1>3, <2>1
<1>5. AddBuffer(codes)
  BY <1>1, <1>2 DEF AddKeys
<1> DEFINE added == IF Len(codes) <= K - used THEN Len(codes) ELSE K - used
<1>6. /\ used' = used + added
      /\ \A k \in 1..used : Ring'[k] = Ring[k]
      /\ \A k \in 1..added : Ring'[used + k] = codes[k]
  BY <1>4, <1>5, AddBufferAppends DEF FInv, IInv
<1>7. /\ lost' = (lost \/ added < Len(codes))
      /\ transfer' = (transfer \/ (added > 0 /\ ~scheduled /\ ~p60changed))
  BY <1>5 DEF AddBuffer, Room, K
<1>8. added \in Nat /\ added <= Len(codes) /\ Len(codes) \in Nat
  BY <1>4, KeyboardAssumption DEF FInv, IInv, TypeOK, K
<1> HIDE DEF added
<1>9. InTurn'
  BY <1>7 DEF FInv, InTurn, port, bios
<1>10. ASSUME ~lost'
       PROVE  Shows(AfterCodes(flags', InFlight'), down')
  <2>1. ~lost /\ added = Len(codes)
    <3>1. ~lost /\ ~(added < Len(codes))
      BY <1>7, <1>10
    <3> QED
      BY <1>8, <3>1
  <2>2. Ring' = Ring \o codes
    <3>1. /\ Ring \in Seq(Codes) /\ Len(Ring) = used
          /\ Ring' \in Seq(Codes) /\ Len(Ring') = used'
      BY RingIsSeq DEF FInv, IInv
    <3>2. PICK t : t = Ring'
      OBVIOUS
    <3>3. PICK r : r = Ring
      OBVIOUS
    <3>4. /\ Len(t) = Len(r) + Len(codes)
          /\ \A k \in 1..Len(r) : t[k] = r[k]
          /\ \A k \in 1..Len(codes) : t[Len(r) + k] = codes[k]
      BY <1>6, <2>1, <3>1, <3>2, <3>3
    <3>5. t = r \o codes
      BY <1>4, <3>1, <3>2, <3>3, <3>4, BehindOthers
    <3> QED
      BY <3>2, <3>3, <3>5
  <2>3. AtRing' = AtRing
    BY DEF AtRing, AtPort, port, bios
  <2>4. AfterCodes(AtRing, Ring \o codes) = AfterCodes(AfterCodes(AtRing, Ring), codes)
    BY <1>4, RingIsSeq, HandleMore DEF FInv, IInv
  <2>5. AfterCodes(flags', InFlight') = AfterCodes(AfterCodes(flags, InFlight), codes)
    BY <2>2, <2>3, <2>4, WayNow, WayNext DEF FInv, IInv
  <2>6. Shows(AfterCodes(flags, InFlight), down)
    BY <2>1 DEF FInv, FlagsFollowKeys
  <2>7. down' = IF pressed THEN down \cup ({key} \cup ToSet(left)) ELSE down \ ({key} \cup ToSet(left))
    BY <1>10 DEF AddKeys
  <2>8. PICK f : f = AfterCodes(flags, InFlight)
    OBVIOUS
  <2>9. Shows(AfterCodes(f, codes), down')
    BY <1>1, <1>2, <1>3, <2>6, <2>7, <2>8, EventShown
  <2> QED
    BY <2>5, <2>8, <2>9
<1> QED
  BY <1>9, <1>10 DEF FlagsFollowKeys

LEMMA KeyEventsFollow ==
  ASSUME FInv, KeyEvents, TypeOK'
  PROVE  FlagsFollowKeys' /\ InTurn'
<1>1. PICK key \in Keys, pressed \in BOOLEAN, m \in SUBSET Modifiers : KeyEvent(key, m \ {key}, pressed)
  BY DEF KeyEvents
<1> DEFINE one(n) == IF n \in m \ {key} THEN <<n>> ELSE <<>>
           left == one("leftctrl") \o one("leftalt") \o one("leftshift")
<1>2. \A n : one(n) \in Seq(Modifiers)
  OBVIOUS
<1>3. left \in Seq(Modifiers)
  <2> HIDE DEF one
  <2>1. one("leftctrl") \in Seq(Modifiers) /\ one("leftalt") \in Seq(Modifiers) /\ one("leftshift") \in Seq(Modifiers)
    BY <1>2
  <2> QED
    BY <2>1
<1>4. AddKeys(left, key, pressed) /\ UNCHANGED <<pos, port, bios, command, irq1>>
  BY <1>1 DEF KeyEvent
<1> HIDE DEF left
<1> QED
  BY <1>3, <1>4, AddKeysFollows

\* The way does not change, nor what stands for the code in the port.
LEMMA WayKept ==
  ASSUME FInv, TypeOK', AtRing' = AtRing, Ring' = Ring, UNCHANGED history
  PROVE  FlagsFollowKeys'
BY WayNow, WayNext DEF FInv, IInv, FlagsFollowKeys, history

LEMMA TickFollows ==
  ASSUME FInv, Tick, TypeOK'
  PROVE  FlagsFollowKeys' /\ InTurn'
<1>1. CASE repeat.wait = 1
  <2>1. repeat.key \in Keys /\ <<>> \in Seq(Modifiers)
    BY <1>1 DEF FInv, IInv, TypeOK
  <2>2. AddKeys(<<>>, repeat.key, TRUE) /\ UNCHANGED <<pos, port, bios, command, irq1>>
    BY <1>1 DEF Tick
  <2> QED
    BY <2>1, <2>2, AddKeysFollows
<1>2. CASE repeat.wait # 1
  <2>1. UNCHANGED <<ring, port, bios, command, irq1, scheduled, transfer, history>>
    BY <1>2 DEF Tick, ring
  <2>2. AtRing' = AtRing /\ Ring' = Ring
    BY <2>1 DEF AtRing, AtPort, Ring, ring, port, bios
  <2> QED
    BY <2>1, <2>2, WayKept DEF FInv, InTurn, port, bios, history
<1> QED
  BY <1>1, <1>2

LEMMA TransferFollows ==
  ASSUME FInv, TransferBuffer, TypeOK'
  PROVE  FlagsFollowKeys' /\ InTurn'
<1>1. CASE used = 0
  <2>1. UNCHANGED <<ring, port, irq1, bios, history>> /\ transfer' = FALSE
    BY <1>1 DEF TransferBuffer
  <2>2. AtRing' = AtRing /\ Ring' = Ring
    BY <2>1 DEF AtRing, AtPort, Ring, ring, port, bios
  <2> QED
    BY <2>1, <2>2, WayKept DEF FInv, InTurn, port, bios, history
<1>2. CASE used # 0
  <2>1. /\ p60data' = buffer[pos] /\ p60changed' = TRUE /\ irq1' = TRUE
        /\ buffer' = [buffer EXCEPT ![pos] = Free]
        /\ pos' = (pos + 1) % KEYBUFSIZE /\ used' = used - 1
        /\ transfer /\ transfer' = FALSE
        /\ UNCHANGED <<bios, history>>
    BY <1>2 DEF TransferBuffer, SetPort60
  <2>2. used > 0 /\ used \in Nat
    BY <1>2, KeyboardAssumption DEF FInv, IInv, TypeOK
  <2>3. /\ buffer[pos] = Ring[1]
        /\ \A k \in 1..used' : Ring'[k] = Ring[k + 1]
    BY <2>1, <2>2, TakeFirst DEF FInv, IInv
  <2>4. SUFFICES ASSUME ~lost
                 PROVE  FlagsFollowKeys' /\ InTurn'
    BY <2>1 DEF FlagsFollowKeys, InTurn, history
  <2>5. ~p60changed /\ ~irq1 /\ handler # "entry"
    BY <2>1, <2>4 DEF FInv, InTurn
  <2>6. InTurn'
    BY <2>1, <2>5 DEF InTurn, bios
  <2>7. PICK r : r = Ring
    OBVIOUS
  <2>8. PICK t : t = Ring'
    OBVIOUS
  <2>9. /\ r \in Seq(Codes) /\ Len(r) = used
        /\ t \in Seq(Codes) /\ Len(t) = used'
    BY <2>7, <2>8, RingIsSeq DEF FInv, IInv
  <2>10. r = <<r[1]>> \o t /\ r[1] \in Codes
    <3>1. Len(r) = Len(t) + 1 /\ \A k \in 1..Len(t) : t[k] = r[k + 1]
      BY <2>1, <2>2, <2>3, <2>7, <2>8, <2>9
    <3> QED
      BY <2>9, <3>1, FirstAndRest
  <2>11. AfterCodes(AtRing, r) = AfterCodes(AfterCode(AtRing, r[1]), t)
    BY <2>9, <2>10, HandleFirst
  <2>12. AtRing' = AfterCode(AtRing, r[1])
    BY <2>1, <2>3, <2>5, <2>7 DEF AtRing, AtPort, bios
  <2>13. AfterCodes(flags', InFlight') = AfterCodes(flags, InFlight)
    BY <2>7, <2>8, <2>11, <2>12, WayNow, WayNext DEF FInv, IInv
  <2>14. FlagsFollowKeys'
    BY <2>1, <2>13 DEF FInv, FlagsFollowKeys, history
  <2> QED
    BY <2>6, <2>14
<1> QED
  BY <1>1, <1>2

LEMMA ClearFollows ==
  ASSUME FInv, ClrBufferAndAck, UNCHANGED <<port, bios, irq1>>, TypeOK', Clears
  PROVE  FlagsFollowKeys' /\ InTurn'
<1>1. /\ lost' = (lost \/ used > 0) /\ down' = IF lost' THEN {} ELSE down
      /\ transfer' = ~p60changed
  BY DEF ClrBufferAndAck, Forget
<1>2. SUFFICES ASSUME ~lost'
               PROVE  FlagsFollowKeys' /\ InTurn'
  BY DEF FlagsFollowKeys, InTurn
<1>3. ~lost /\ ~(used > 0) /\ down' = down
  BY <1>1, <1>2
<1>4. used \in Nat /\ used = 0
  BY <1>3, KeyboardAssumption DEF FInv, IInv, TypeOK
<1>5. InTurn'
  BY <1>1, <1>3 DEF FInv, InTurn, port, bios
<1>6. AtRing' = AtRing
  BY DEF AtRing, AtPort, port, bios
<1>7. AfterCodes(AtRing, Ring) = AtRing
  <2>1. Ring \in Seq(Codes) /\ Len(Ring) = 0
    BY <1>4, RingIsSeq DEF FInv, IInv
  <2> QED
    BY <2>1, HandleFew
<1>8. AfterCodes(AtRing, Ring') = AfterCode(AtRing, Ack)
  <2>1. Ring' \in Seq(Codes) /\ Len(Ring') = 1 /\ Ring'[1] = Ack
    BY RingIsSeq DEF Clears
  <2>2. PICK t : t = Ring'
    OBVIOUS
  <2> QED
    BY <2>1, <2>2, HandleFew
<1>9. AfterCode(AtRing, Ack) = AtRing \ {"e0"}
  <2>1. Ack = Up("ack")
    BY DEF Ack, Up
  <2> QED
    BY <2>1, CodeUp
<1>10. Shows(AtRing, down)
  BY <1>3, <1>7, WayNow DEF FInv, IInv, FlagsFollowKeys
<1>11. Shows(AtRing \ {"e0"}, down)
  BY <1>10 DEF Shows
<1>12. Shows(AfterCodes(flags', InFlight'), down')
  BY <1>3, <1>6, <1>8, <1>9, <1>11, WayNext
<1> QED
  BY <1>5, <1>12 DEF FlagsFollowKeys

\* Every step keeps the codes in turn and the flags after the keys.
LEMMA NextFollows ==
  ASSUME FInv, [Next]_vars
  PROVE  FInv'
<1>1. IInv' /\ TypeOK'
  BY NextPreserves DEF FInv, IInv
<1>2. SUFFICES FlagsFollowKeys' /\ InTurn'
  BY <1>1 DEF FInv
<1>3. CASE KeyEvents
  BY <1>1, <1>3, KeyEventsFollow
<1>4. CASE Tick
  BY <1>1, <1>4, TickFollows
<1>5. CASE TransferBuffer
  BY <1>1, <1>5, TransferFollows
<1>6. ASSUME NEW c \in Commands, SendCommand(c) PROVE FlagsFollowKeys' /\ InTurn'
  <2>1. command' \in {"none", "leds", "rate", "outport"}
    BY <1>6, KeyboardAssumption DEF SendCommand
  <2>2. Clears
    BY <1>6, <2>1, ClearPreserves DEF SendCommand, FInv
  <2> QED
    BY <1>1, <1>6, <2>2, ClearFollows DEF SendCommand
<1>7. CASE SendParameter
  <2>1. Clears
    BY <1>7, ClearPreserves DEF SendParameter, FInv
  <2> QED
    BY <1>1, <1>7, <2>1, ClearFollows DEF SendParameter
<1>8. ASSUME UNCHANGED <<ring, port, bios, irq1, transfer, history>>
      PROVE  FlagsFollowKeys' /\ InTurn'
  <2>1. AtRing' = AtRing /\ Ring' = Ring
    BY <1>8 DEF AtRing, AtPort, Ring, ring, port, bios
  <2> QED
    BY <1>1, <1>8, <2>1, WayKept DEF FInv, InTurn, port, bios, history
<1>9. CASE SetOutputPort
  BY <1>8, <1>9 DEF SetOutputPort
<1>10. CASE write_p60
  BY <1>6, <1>7, <1>9, <1>10 DEF write_p60
<1>11. CASE Activate
  <2>1. UNCHANGED <<ring, port, bios, irq1, history>> /\ transfer' \in {transfer, ~p60changed}
    BY <1>11 DEF Activate, FInv, IInv, TypeOK
  <2>2. AtRing' = AtRing /\ Ring' = Ring
    BY <2>1 DEF AtRing, AtPort, Ring, ring, port, bios
  <2> QED
    BY <1>1, <2>1, <2>2, WayKept DEF FInv, InTurn, port, bios, history
<1>12. CASE OutportOnBuffer
  <2>1. lost' = TRUE
    BY <1>12 DEF OutportOnBuffer, Forget
  <2> QED
    BY <2>1 DEF FlagsFollowKeys, InTurn
<1>13. CASE WriteToOutport
  BY <1>8, <1>13 DEF WriteToOutport
<1>14. CASE Poll
  <2>1. lost' = TRUE
    BY <1>14 DEF Poll, Forget
  <2> QED
    BY <2>1 DEF FlagsFollowKeys, InTurn
<1>15. CASE TakeIrq1
  <2>1. /\ handler = "none" /\ irq1 /\ irq1' = FALSE /\ handler' = "entry"
        /\ UNCHANGED <<ring, port, al, flags, transfer, history>>
    BY <1>15 DEF TakeIrq1
  <2>2. AtRing' = AtRing /\ Ring' = Ring
    BY <2>1 DEF AtRing, AtPort, Ring, ring, port
  <2> QED
    BY <1>1, <2>1, <2>2, WayKept DEF FInv, InTurn, port, history
<1>16. CASE ReadCode
  <2>1. /\ handler = "entry" /\ handler' = "code" /\ al' = p60data
        /\ p60changed' = FALSE /\ UNCHANGED <<ring, p60data, flags, irq1, history>>
    BY <1>16 DEF ReadCode, read_p60
  <2>2. Ring' = Ring
    BY <2>1 DEF Ring, ring
  <2>3. SUFFICES ASSUME ~lost
                 PROVE  FlagsFollowKeys' /\ InTurn'
    BY <2>1 DEF FlagsFollowKeys, InTurn, history
  <2>4. p60changed /\ ~irq1
    BY <2>1, <2>3 DEF FInv, InTurn
  <2>5. AtRing' = AtRing
    BY <2>1, <2>4 DEF AtRing, AtPort
  <2>6. InTurn'
    BY <2>1, <2>4 DEF InTurn
  <2> QED
    BY <1>1, <2>1, <2>2, <2>5, <2>6, WayKept
<1>17. CASE HandleCode
  <2>1. /\ handler = "code" /\ handler' = "none" /\ flags' = AfterCode(flags, al)
        /\ UNCHANGED <<ring, port, irq1, transfer, history>>
    BY <1>17 DEF HandleCode
  <2>2. AtRing' = AtRing /\ Ring' = Ring
    BY <2>1 DEF AtRing, AtPort, Ring, ring, port
  <2> QED
    BY <1>1, <2>1, <2>2, WayKept DEF FInv, InTurn, port, history
<1>18. CASE UNCHANGED vars
  BY <1>8, <1>18 DEF vars
<1> QED
  BY <1>3, <1>4, <1>5, <1>10, <1>11, <1>12, <1>13, <1>14, <1>15, <1>16, <1>17, <1>18 DEF Next

\* As long as no code was dropped, cleared or seen out of turn, the BIOS flags
\* show, once the codes on their way have been handled, exactly the keys that are
\* down: no modifier sticks or is missed, for any ring, keys and repeat rate.
THEOREM FlagsFollow == Spec => []FlagsFollowKeys
<1>1. Init => FInv
  <2> SUFFICES ASSUME Init PROVE FInv
    OBVIOUS
  <2>1. IInv
    BY InitIInv
  <2>2. InTurn
    BY DEF Init, InTurn
  <2>3. AtRing = {} /\ used = 0 /\ down = {}
    BY DEF Init, AtRing, AtPort
  <2>4. Ring \in Seq(Codes) /\ Len(Ring) = 0
    BY <2>1, <2>3, RingIsSeq DEF IInv
  <2>5. AfterCodes(AtRing, Ring) = AtRing
    BY <2>4, HandleFew
  <2>6. Shows(AtRing, down)
    BY <2>3 DEF Shows
  <2>7. FlagsFollowKeys
    BY <2>1, <2>5, <2>6, WayNow DEF FlagsFollowKeys, IInv
  <2> QED
    BY <2>1, <2>2, <2>7 DEF FInv
<1>2. FInv /\ [Next]_vars => FInv'
  BY NextFollows
<1>3. FInv => FlagsFollowKeys
  BY DEF FInv
<1> QED
  BY <1>1, <1>2, <1>3, PTL DEF Spec

=============================================================================

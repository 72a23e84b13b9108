--------------------------- MODULE ConsoleProofs ---------------------------
(***************************************************************************)
(* The cursor stays where it should, for any number of writers, any font   *)
(* and any screen: the column whatever happens, the line as long as no     *)
(* line was stored that was computed from an old one.  Without preemption  *)
(* the cursor and the text scroll together.                                *)
(***************************************************************************)
EXTENDS Console, FiniteSetTheorems, TLAPS

(* The result of unsigned arithmetic is a coordinate, and exact in range. *)
LEMMA Unsigned == \A n \in Int : n % Wrap \in 0 .. (Wrap - 1)
BY ScreenAssumption

LEMMA InRange == \A n \in 0 .. (Wrap - 1) : n % Wrap = n
BY ScreenAssumption

-----------------------------------------------------------------------------
(* A column without room is one that a writer is about to check. *)
Checked == g_CursorX + CharW > Width => \E w \in Writers : pc[w] = "check_x"

ColumnInv == TypeOK /\ Checked

LEMMA TypeStep == TypeOK /\ [Next]_vars => TypeOK'
<1>. SUFFICES ASSUME TypeOK, [Next]_vars PROVE TypeOK'
  OBVIOUS
<1>. USE DEF TypeOK, Labels
<1>0. 0 \in 0 .. (Wrap - 1)
  BY ScreenAssumption
<1>1. ASSUME NEW w \in Writers, PutChar(w) PROVE TypeOK'
  <2>1. CASE Newline(w)
    BY <1>0, <2>1 DEF Newline, Enter, Goto, Rows
  <2>2. CASE Draw(w)
    BY <2>2 DEF Draw, Enter, Goto, Rows, cursor
  <2>3. CASE LoadX(w)
    BY <2>3 DEF LoadX, Load, Goto, Rows, cursor
  <2>4. CASE StoreX(w)
    <3>1. (reg[w] + CharW) % Wrap \in 0 .. (Wrap - 1)
      BY Unsigned, FontAssumption
    <3>2. QED BY <1>0, <2>4, <3>1 DEF StoreX, Load, Goto, Rows
  <2>5. CASE CheckX(w)
    BY <1>0, <2>5 DEF CheckX, Goto, Rows
  <2>6. CASE LoadY(w)
    BY <2>6 DEF LoadY, Load, Goto, Rows, cursor
  <2>7. CASE StoreY(w)
    <3>1. (reg[w] + LineAdvance) % Wrap \in 0 .. (Wrap - 1)
      BY Unsigned, FontAssumption
    <3>2. QED BY <1>0, <2>7, <3>1 DEF StoreY, Load, Goto, Rows
  <2>8. CASE CheckY(w)
    BY <2>8 DEF CheckY, Goto, Rows, cursor
  <2>9. CASE Scroll(w)
    BY <2>9 DEF Scroll, Goto, Rows, cursor
  <2>10. CASE LoadBack(w)
    BY <2>10 DEF LoadBack, Load, Goto, Rows, cursor
  <2>11. CASE StoreBack(w)
    <3>1. (reg[w] - LineAdvance) % Wrap \in 0 .. (Wrap - 1)
      BY Unsigned, FontAssumption
    <3>2. QED BY <1>0, <2>11, <3>1 DEF StoreBack, Load, Goto, Rows
  <2>12. QED
    BY <1>1, <2>1, <2>2, <2>3, <2>4, <2>5, <2>6, <2>7, <2>8, <2>9, <2>10, <2>11
    DEF PutChar
<1>2. CASE UNCHANGED vars
  BY <1>2 DEF vars, cursor, Rows
<1>3. QED BY <1>1, <1>2 DEF Next

LEMMA CheckedStep == TypeOK /\ Checked /\ [Next]_vars => Checked'
<1>. SUFFICES ASSUME TypeOK, Checked, [Next]_vars PROVE Checked'
  OBVIOUS
<1>. USE FontAssumption, ScreenAssumption DEF Checked
<1>1. ASSUME NEW w \in Writers, PutChar(w) PROVE Checked'
  <2>0. pc \in [Writers -> Labels]
    BY DEF TypeOK
  <2>1. CASE Newline(w)
    BY <2>1 DEF Newline
  <2>2. CASE StoreX(w)
    BY <2>0, <2>2 DEF StoreX, Goto
  <2>3. CASE CheckX(w)
    BY <2>0, <2>3 DEF CheckX, Goto
  <2>4. ASSUME pc[w] # "check_x", NEW l \in Labels, Goto(w, l), UNCHANGED g_CursorX
        PROVE Checked'
    BY <2>0, <2>4 DEF Goto
  <2>5. CASE Draw(w) \/ LoadX(w) \/ LoadY(w) \/ StoreY(w) \/ CheckY(w) \/ Scroll(w)
             \/ LoadBack(w) \/ StoreBack(w)
    BY <2>4, <2>5 DEF Draw, Enter, LoadX, LoadY, StoreY, CheckY, Scroll, LoadBack, StoreBack,
                      Labels, cursor
  <2>6. QED BY <1>1, <2>1, <2>2, <2>3, <2>5 DEF PutChar
<1>2. CASE UNCHANGED vars
  BY <1>2 DEF vars, cursor
<1>3. QED BY <1>1, <1>2 DEF Next

LEMMA InitColumn == Init => ColumnInv
<1>1. 0 \in 0 .. (Wrap - 1)
  BY ScreenAssumption
<1>2. Init => TypeOK
  BY <1>1 DEF Init, TypeOK, Labels
<1>3. Init => ~(g_CursorX + CharW > Width)
  BY FontAssumption, ScreenAssumption DEF Init
<1>4. QED BY <1>2, <1>3 DEF ColumnInv, Checked

LEMMA ColumnHolds == Spec => []ColumnInv
<1>1. ColumnInv /\ [Next]_vars => ColumnInv'
  BY TypeStep, CheckedStep DEF ColumnInv
<1>2. QED BY InitColumn, <1>1, PTL DEF Spec

(***************************************************************************)
(* Whoever interrupts whom, the cursor is well formed and the next         *)
(* character has room in its line when nobody is printing (console.c:80).  *)
(***************************************************************************)
THEOREM RoomCorrect == Spec => []Inv
<1>1. ColumnInv => Inv
  <2>. SUFFICES ASSUME ColumnInv, Idle PROVE g_CursorX + CharW <= Width
    BY DEF ColumnInv, Inv, RoomForNext
  <2>1. ~(g_CursorX + CharW > Width)
    BY DEF ColumnInv, Checked, Idle
  <2>2. g_CursorX \in Int /\ CharW \in Int /\ Width \in Int
    BY FontAssumption, ScreenAssumption DEF ColumnInv, TypeOK
  <2>3. QED BY <2>1, <2>2
<1>2. QED BY <1>1, ColumnHolds, PTL

-----------------------------------------------------------------------------
(* The height of n lines. *)
Lines(n) == n * LineAdvance

(* The writers that have stored a new line and are not done with it, and    *)
(* those among them that are to step back.                                  *)
Stepping == {w \in Writers : pc[w] \in {"check_y", "scroll", "load_back", "store_back"}}
Backing == {w \in Writers : pc[w] \in {"scroll", "load_back", "store_back"}}

(* The cursor is on a line; everyone who is to step back can; and it is     *)
(* below the screen by no more lines than there are writers who will look.  *)
LineInv ==
  /\ \E k \in Nat : g_CursorY = Lines(k)
  /\ Lines(Cardinality(Backing)) <= g_CursorY
  /\ g_CursorY < height + Lines(Cardinality(Stepping))

LEMMA LinesGrow ==
  /\ \A n \in Nat : Lines(n) \in Nat /\ Lines(n + 1) = Lines(n) + LineAdvance
  /\ \A m, n \in Nat : m <= n => Lines(m) <= Lines(n)
<1>1. LineAdvance \in Nat
  BY FontAssumption
<1>2. \A n \in Nat : n * LineAdvance \in Nat /\ (n + 1) * LineAdvance = n * LineAdvance + LineAdvance
  BY <1>1
<1>3. ASSUME NEW m \in Nat, NEW n \in Nat, m <= n
      PROVE  m * LineAdvance <= n * LineAdvance
  <2>1. (n - m) \in Nat /\ n = m + (n - m)
    BY <1>3
  <2>2. n * LineAdvance = m * LineAdvance + (n - m) * LineAdvance
    BY <1>1, <2>1
  <2>3. (n - m) * LineAdvance \in Nat /\ m * LineAdvance \in Nat /\ n * LineAdvance \in Nat
    BY <1>1, <2>1
  <2>4. QED BY <2>2, <2>3
<1>4. QED BY <1>2, <1>3 DEF Lines

(* How a writer's move changes a set of writers, and its size. *)
LEMMA Sizes ==
  /\ Cardinality(Stepping) \in Nat /\ Cardinality(Backing) \in Nat
  /\ \A w \in Writers : w \notin Stepping => Cardinality(Stepping) + 1 <= Cardinality(Writers)
  /\ \A w \in Writers : w \notin Backing => Cardinality(Backing) + 1 <= Cardinality(Writers)
  /\ Cardinality(Writers) \in Nat
<1>1. ASSUME NEW S \in SUBSET Writers
      PROVE  /\ IsFiniteSet(S) /\ Cardinality(S) \in Nat
             /\ \A w \in Writers : w \notin S => Cardinality(S) + 1 <= Cardinality(Writers)
  <2>1. IsFiniteSet(S) /\ Cardinality(S) \in Nat
    BY WritersAssumption, FS_Subset, FS_CardinalityType
  <2>2. ASSUME NEW w \in Writers, w \notin S PROVE Cardinality(S) + 1 <= Cardinality(Writers)
    <3>1. Cardinality(S \cup {w}) = Cardinality(S) + 1
      BY <2>1, <2>2, FS_AddElement
    <3>2. Cardinality(S \cup {w}) <= Cardinality(Writers)
      BY WritersAssumption, FS_Subset
    <3>3. QED BY <3>1, <3>2
  <2>3. QED BY <2>1, <2>2
<1>2. Stepping \in SUBSET Writers /\ Backing \in SUBSET Writers
  BY DEF Stepping, Backing
<1>3. Cardinality(Writers) \in Nat
  BY WritersAssumption, FS_CardinalityType
<1>4. QED BY <1>1, <1>2, <1>3

LEMMA Resize ==
  ASSUME NEW S \in SUBSET Writers, NEW w \in Writers
  PROVE  /\ w \notin S => Cardinality(S \cup {w}) = Cardinality(S) + 1
         /\ w \in S => Cardinality(S \ {w}) = Cardinality(S) - 1
<1>1. IsFiniteSet(S)
  BY WritersAssumption, FS_Subset
<1>2. QED BY <1>1, FS_AddElement, FS_RemoveElement

LEMMA Moves ==
  ASSUME pc \in [Writers -> Labels], NEW w \in Writers, NEW l \in Labels, Goto(w, l)
  PROVE  /\ Stepping' = IF l \in {"check_y", "scroll", "load_back", "store_back"}
                        THEN Stepping \cup {w} ELSE Stepping \ {w}
         /\ Backing' = IF l \in {"scroll", "load_back", "store_back"}
                       THEN Backing \cup {w} ELSE Backing \ {w}
         /\ w \in Stepping <=> pc[w] \in {"check_y", "scroll", "load_back", "store_back"}
         /\ w \in Backing <=> pc[w] \in {"scroll", "load_back", "store_back"}
         /\ Stepping \in SUBSET Writers /\ Backing \in SUBSET Writers
BY DEF Stepping, Backing, Goto

LEMMA LineStep == TypeOK /\ TypeOK' /\ (~torn => LineInv) /\ [Next]_vars => (~torn' => LineInv')
<1>. SUFFICES ASSUME TypeOK, TypeOK', ~torn => LineInv, [Next]_vars, ~torn' PROVE LineInv'
  OBVIOUS
<1>0. /\ pc \in [Writers -> Labels] /\ LineAdvance \in Nat
      /\ height \in Nat /\ g_CursorY \in Nat /\ Wrap \in Nat
      /\ Lines(Cardinality(Writers)) <= height
      /\ height + Lines(Cardinality(Writers)) < Wrap
  BY FontAssumption, ScreenAssumption DEF TypeOK, Lines
<1>1. ASSUME NEW w \in Writers, PutChar(w) PROVE LineInv'
  <2>0. ~torn /\ LineInv
    <3>1. torn \in BOOLEAN /\ torn' \in BOOLEAN
      BY DEF TypeOK
    <3>2. CASE StoreY(w)
      BY <3>1, <3>2 DEF StoreY
    <3>3. CASE StoreBack(w)
      BY <3>1, <3>3 DEF StoreBack
    <3>4. CASE UNCHANGED torn
      BY <3>4
    <3>5. QED
      BY <1>1, <3>2, <3>3, <3>4
      DEF PutChar, Newline, Draw, LoadX, StoreX, CheckX, LoadY, CheckY, Scroll, LoadBack
  <2>a. PICK k \in Nat : g_CursorY = Lines(k)
    BY <2>0 DEF LineInv
  <2>b. /\ Lines(Cardinality(Backing)) <= g_CursorY
        /\ g_CursorY < height + Lines(Cardinality(Stepping))
    BY <2>0 DEF LineInv
  \* Nobody's part in the new line changes.
  <2>1. ASSUME UNCHANGED <<height, g_CursorY, Stepping, Backing>> PROVE LineInv'
    BY <2>0, <2>1 DEF LineInv, Lines
  <2>2. ASSUME NEW l \in Labels, Goto(w, l), UNCHANGED <<height, g_CursorY>>,
               pc[w] \in {"check_y", "scroll", "load_back", "store_back"}
                 <=> l \in {"check_y", "scroll", "load_back", "store_back"},
               pc[w] \in {"scroll", "load_back", "store_back"}
                 <=> l \in {"scroll", "load_back", "store_back"}
        PROVE  LineInv'
    <3>1. UNCHANGED <<Stepping, Backing>>
      BY <1>0, <2>2, Moves
    <3>2. QED BY <2>1, <2>2, <3>1
  <2>3. CASE Newline(w) \/ Draw(w) \/ LoadX(w) \/ StoreX(w) \/ CheckX(w) \/ LoadY(w)
             \/ Scroll(w) \/ LoadBack(w)
    BY <2>2, <2>3 DEF Newline, Enter, Draw, LoadX, StoreX, CheckX, LoadY, Scroll, LoadBack,
                      Labels, cursor
  \* A new line: one more writer has to look, and there is no wrap.
  <2>4. CASE StoreY(w)
    <3>1. Stepping' = Stepping \cup {w} /\ w \notin Stepping /\ Stepping \in SUBSET Writers
      BY <1>0, <2>4, Moves DEF StoreY, Labels
    <3>2. Backing' = Backing
      BY <1>0, <2>4, Moves DEF StoreY, Labels
    <3>3. Cardinality(Stepping') = Cardinality(Stepping) + 1
      BY <3>1, Resize
    <3>4. /\ Cardinality(Stepping) + 1 <= Cardinality(Writers)
          /\ Cardinality(Stepping) \in Nat /\ Cardinality(Writers) \in Nat
          /\ Cardinality(Backing) \in Nat
      BY <3>1, Sizes
    <3>5. /\ Lines(Cardinality(Stepping) + 1) = Lines(Cardinality(Stepping)) + LineAdvance
          /\ Lines(Cardinality(Stepping) + 1) <= Lines(Cardinality(Writers))
          /\ Lines(Cardinality(Stepping)) \in Nat /\ Lines(Cardinality(Writers)) \in Nat
          /\ Lines(Cardinality(Backing)) \in Nat
          /\ Lines(k + 1) = Lines(k) + LineAdvance
      BY <2>a, <3>4, LinesGrow
    <3>6. g_CursorY + LineAdvance \in 0 .. (Wrap - 1)
      BY <1>0, <2>b, <3>5
    <3>7. g_CursorY' = g_CursorY + LineAdvance /\ height' = height
      BY <2>4, <3>6, InRange DEF StoreY
    <3>8. g_CursorY' = Lines(k + 1)
      BY <2>a, <3>5, <3>7
    <3>9. Lines(Cardinality(Backing)) <= g_CursorY'
      BY <1>0, <2>b, <3>5, <3>7
    <3>10. g_CursorY' < height + Lines(Cardinality(Stepping) + 1)
      BY <1>0, <2>b, <3>5, <3>7
    <3>11. QED
      BY <2>a, <3>2, <3>3, <3>7, <3>8, <3>9, <3>10 DEF LineInv, Lines
  \* A writer that looks: the line is on the screen, or it will step back.
  <2>5. CASE CheckY(w)
    <3>0. /\ Cardinality(Stepping) \in Nat /\ Cardinality(Backing) \in Nat
          /\ Cardinality(Writers) \in Nat
      BY Sizes
    <3>1. CASE g_CursorY >= height
      <4>1. Goto(w, "scroll") /\ UNCHANGED <<height, g_CursorY>> /\ pc[w] = "check_y"
        BY <2>5, <3>1 DEF CheckY, cursor
      <4>2. Stepping' = Stepping
        BY <1>0, <4>1, Moves DEF Labels
      <4>3. Backing' = Backing \cup {w} /\ w \notin Backing /\ Backing \in SUBSET Writers
        BY <1>0, <4>1, Moves DEF Labels
      <4>4. Cardinality(Backing') = Cardinality(Backing) + 1
        BY <4>3, Resize
      <4>5. Lines(Cardinality(Backing) + 1) <= Lines(Cardinality(Writers))
        BY <3>0, <4>3, Sizes, LinesGrow
      <4>6. Lines(Cardinality(Backing) + 1) \in Nat /\ Lines(Cardinality(Writers)) \in Nat
        BY <3>0, LinesGrow
      <4>7. Lines(Cardinality(Backing) + 1) <= g_CursorY
        BY <1>0, <3>1, <4>5, <4>6
      <4>8. QED BY <2>0, <4>1, <4>2, <4>4, <4>7 DEF LineInv, Lines
    <3>2. CASE ~(g_CursorY >= height)
      <4>1. Goto(w, "idle") /\ UNCHANGED <<height, g_CursorY>> /\ pc[w] = "check_y"
        BY <2>5, <3>2 DEF CheckY, cursor
      <4>2. Backing' = Backing
        BY <1>0, <4>1, Moves DEF Labels
      <4>3. Cardinality(Stepping') \in Nat
        <5>1. Stepping' = Stepping \ {w} /\ w \in Stepping /\ Stepping \in SUBSET Writers
          BY <1>0, <4>1, Moves DEF Labels
        <5>2. IsFiniteSet(Stepping')
          BY <5>1, WritersAssumption, FS_Subset
        <5>3. QED BY <5>2, FS_CardinalityType
      <4>4. Lines(Cardinality(Stepping')) \in Nat
        BY <4>3, LinesGrow
      <4>5. g_CursorY < height + Lines(Cardinality(Stepping'))
        BY <1>0, <3>2, <4>4
      <4>6. QED BY <2>0, <4>1, <4>2, <4>5 DEF LineInv, Lines
    <3>3. QED BY <3>1, <3>2
  \* A writer steps back: it was counted in both sets.
  <2>6. CASE StoreBack(w)
    <3>1. Stepping' = Stepping \ {w} /\ w \in Stepping /\ Stepping \in SUBSET Writers
      BY <1>0, <2>6, Moves DEF StoreBack, Labels
    <3>2. Backing' = Backing \ {w} /\ w \in Backing /\ Backing \in SUBSET Writers
      BY <1>0, <2>6, Moves DEF StoreBack, Labels
    <3>3. PICK s \in Nat : Cardinality(Stepping) = s + 1 /\ Cardinality(Stepping') = s
      <4>1. Cardinality(Stepping') \in Nat
        <5>1. IsFiniteSet(Stepping')
          BY <3>1, WritersAssumption, FS_Subset
        <5>2. QED BY <5>1, FS_CardinalityType
      <4>2. Cardinality(Stepping') = Cardinality(Stepping) - 1 /\ Cardinality(Stepping) \in Nat
        BY <3>1, Resize, Sizes
      <4>3. QED BY <4>1, <4>2
    <3>4. PICK b \in Nat : Cardinality(Backing) = b + 1 /\ Cardinality(Backing') = b
      <4>1. Cardinality(Backing') \in Nat
        <5>1. IsFiniteSet(Backing')
          BY <3>2, WritersAssumption, FS_Subset
        <5>2. QED BY <5>1, FS_CardinalityType
      <4>2. Cardinality(Backing') = Cardinality(Backing) - 1 /\ Cardinality(Backing) \in Nat
        BY <3>2, Resize, Sizes
      <4>3. QED BY <4>1, <4>2
    <3>5. /\ Lines(s + 1) = Lines(s) + LineAdvance /\ Lines(s) \in Nat
          /\ Lines(b + 1) = Lines(b) + LineAdvance /\ Lines(b) \in Nat
      BY <3>3, <3>4, LinesGrow
    <3>6. Lines(b) + LineAdvance <= g_CursorY /\ g_CursorY < height + Lines(s) + LineAdvance
      BY <1>0, <2>b, <3>3, <3>4, <3>5
    <3>7. g_CursorY < Wrap
      BY ScreenAssumption DEF TypeOK
    <3>8. g_CursorY - LineAdvance \in 0 .. (Wrap - 1)
      BY <1>0, <3>5, <3>6, <3>7
    <3>9. g_CursorY' = g_CursorY - LineAdvance /\ height' = height
      BY <2>6, <3>8, InRange DEF StoreBack
    <3>10. \E j \in Nat : g_CursorY' = Lines(j)
      <4>1. k # 0
        BY <1>0, <2>a, <3>5, <3>6, FontAssumption DEF Lines
      <4>2. k - 1 \in Nat /\ k = (k - 1) + 1
        BY <4>1
      <4>3. Lines(k) = Lines(k - 1) + LineAdvance /\ Lines(k - 1) \in Nat
        BY <4>2, LinesGrow
      <4>4. QED BY <1>0, <2>a, <3>9, <4>2, <4>3
    <3>11. Lines(b) <= g_CursorY' /\ g_CursorY' < height + Lines(s)
      BY <1>0, <3>5, <3>6, <3>9
    <3>12. QED BY <3>3, <3>4, <3>9, <3>10, <3>11 DEF LineInv, Lines
  <2>7. QED BY <1>1, <2>3, <2>4, <2>5, <2>6 DEF PutChar
<1>2. CASE UNCHANGED vars
  BY <1>2 DEF vars, cursor, LineInv, Lines, Stepping, Backing
<1>3. QED BY <1>1, <1>2 DEF Next

LEMMA LineInit == Init => LineInv
<1>. SUFFICES ASSUME Init PROVE LineInv
  OBVIOUS
<1>1. Stepping = {} /\ Backing = {}
  BY DEF Init, Stepping, Backing
<1>2. Cardinality(Stepping) = 0 /\ Cardinality(Backing) = 0
  BY <1>1, FS_EmptySet
<1>3. Lines(0) = 0
  BY FontAssumption DEF Lines
<1>4. 0 < height
  <2>1. Cardinality(Writers) \in Nat \ {0}
    BY WritersAssumption, FS_CardinalityType, FS_EmptySet
  <2>2. Lines(1) <= Lines(Cardinality(Writers)) /\ Lines(1) = 0 + LineAdvance
    BY <1>3, <2>1, LinesGrow
  <2>3. Lines(Cardinality(Writers)) <= height /\ height \in Nat
    BY ScreenAssumption DEF Init, Lines
  <2>4. Lines(Cardinality(Writers)) \in Nat /\ 0 < LineAdvance /\ LineAdvance \in Nat
    BY <2>1, LinesGrow, FontAssumption
  <2>5. QED BY <2>2, <2>3, <2>4
<1>5. height \in Nat /\ g_CursorY = 0
  BY ScreenAssumption DEF Init
<1>6. \E k \in Nat : g_CursorY = Lines(k)
  BY <1>3, <1>5
<1>7. QED BY <1>2, <1>3, <1>4, <1>5, <1>6 DEF LineInv

(***************************************************************************)
(* With any number of writers, whatever the order of their checks, scrolls *)
(* and steps back (console.c:83-86): if no line was lost, the cursor is    *)
(* back on the screen when nobody is printing, and so is its whole line if *)
(* the height leaves no part of a character below the last one.            *)
(***************************************************************************)
THEOREM LineCorrect == Spec => []CursorOnScreen
<1>1. Init => TypeOK /\ (~torn => LineInv)
  BY InitColumn, LineInit DEF ColumnInv
<1>2. TypeOK /\ (~torn => LineInv) /\ [Next]_vars => TypeOK' /\ (~torn' => LineInv')
  BY TypeStep, LineStep
<1>3. TypeOK /\ (~torn => LineInv) => CursorOnScreen
  <2>. SUFFICES ASSUME TypeOK, LineInv, Idle
                PROVE  /\ g_CursorY < height
                       /\ height % LineAdvance \notin 1 .. (CharH - 1)
                            => g_CursorY + CharH <= height
    BY DEF CursorOnScreen
  <2>0. height \in Nat /\ LineAdvance \in Nat \ {0} /\ CharH \in Nat /\ CharH <= LineAdvance
    BY ScreenAssumption, FontAssumption DEF TypeOK
  <2>1. Stepping = {}
    BY DEF Idle, Stepping
  <2>2. Lines(Cardinality(Stepping)) = 0
    BY <2>0, <2>1, FS_EmptySet DEF Lines
  <2>3. PICK k \in Nat : g_CursorY = k * LineAdvance
    BY DEF LineInv, Lines
  <2>4. g_CursorY < height /\ g_CursorY \in Nat
    BY <2>0, <2>2, <2>3 DEF LineInv
  <2>5. ASSUME height % LineAdvance \notin 1 .. (CharH - 1) PROVE g_CursorY + CharH <= height
    <3>0. /\ height \div LineAdvance \in Nat /\ height % LineAdvance \in Nat
          /\ height = (height \div LineAdvance) * LineAdvance + (height % LineAdvance)
          /\ height % LineAdvance < LineAdvance
      BY <2>0
    <3>1. PICK q \in Nat, r \in Nat :
             height = q * LineAdvance + r /\ r = height % LineAdvance /\ r < LineAdvance
      BY <3>0
    <3>2. k <= q
      <4>. SUFFICES ASSUME q + 1 <= k PROVE FALSE
        BY <3>1
      <4>1. Lines(q + 1) <= Lines(k) /\ Lines(q + 1) = Lines(q) + LineAdvance
        BY <3>1, LinesGrow
      <4>2. (q * LineAdvance) \in Nat
        BY <2>0, <3>1
      <4>3. QED BY <2>0, <2>3, <2>4, <3>1, <4>1, <4>2 DEF Lines
    <3>3. CASE k = q
      <4>1. g_CursorY + r = height
        BY <2>0, <2>3, <3>1, <3>3
      <4>2. r # 0
        BY <2>0, <2>4, <3>1, <4>1
      <4>3. QED BY <2>0, <2>4, <2>5, <3>1, <4>1, <4>2
    <3>4. CASE k + 1 <= q
      <4>1. Lines(k + 1) <= Lines(q) /\ Lines(k + 1) = Lines(k) + LineAdvance
        BY <3>1, <3>4, LinesGrow
      <4>2. q * LineAdvance \in Nat
        BY <2>0, <3>1
      <4>3. QED BY <2>0, <2>3, <2>4, <3>1, <4>1, <4>2 DEF Lines
    <3>5. QED BY <3>1, <3>2, <3>3, <3>4
  <2>6. QED BY <2>4, <2>5
<1>4. QED BY <1>1, <1>2, <1>3, PTL DEF Spec
-----------------------------------------------------------------------------
(* Text is only on the rows above row r. *)
Above(r) == \A y \in ink : y < r

(* Nobody is printing: the text ends above the cursor, or with the line     *)
(* that has been begun.                                                     *)
Resting ==
  /\ g_CursorY < height
  /\ g_CursorX + CharW <= Width
  /\ Above(g_CursorY + LineAdvance)
  /\ g_CursorX = 0 => Above(g_CursorY)

(* What the one writer that is printing knows: about the column and until   *)
(* the new line is stored, after that, and about the register.              *)
OnLine(w) ==
  /\ pc[w] \in {"load_x", "store_x", "check_x", "load_y", "store_y"} =>
       g_CursorY < height /\ Above(g_CursorY + LineAdvance)
  /\ pc[w] \in {"load_x", "store_x"} => g_CursorX + CharW <= Width
  /\ pc[w] = "check_x" => g_CursorX # 0
  /\ pc[w] \notin {"load_x", "store_x", "check_x"} => g_CursorX = 0
BelowLine(w) ==
  /\ pc[w] \in {"check_y", "scroll"} => Above(g_CursorY)
  /\ pc[w] \in {"load_back", "store_back"} => Above(g_CursorY - LineAdvance)
  /\ pc[w] \in {"check_y", "scroll", "load_back", "store_back"} =>
       g_CursorY < height + LineAdvance
  /\ pc[w] \in {"scroll", "load_back", "store_back"} => height <= g_CursorY
Loaded(w) ==
  /\ pc[w] = "store_x" => reg[w] = g_CursorX
  /\ pc[w] \in {"store_y", "store_back"} => reg[w] = g_CursorY

(* Without preemption one writer prints at a time, and it knows where the   *)
(* text ends.                                                               *)
AloneInv ==
  /\ \A v, w \in Writers : pc[v] # "idle" /\ pc[w] # "idle" => v = w
  /\ Idle => Resting
  /\ \A w \in Writers : pc[w] # "idle" => OnLine(w) /\ BelowLine(w) /\ Loaded(w)

(* A line fits on every screen, and one more does not wrap. *)
LEMMA OneLine ==
  /\ LineAdvance \in Nat /\ 0 < LineAdvance /\ CharH \in Nat /\ CharH <= LineAdvance
  /\ CharW \in Nat /\ 0 < CharW /\ Width \in Nat /\ Width < Wrap /\ Wrap \in Nat
  /\ \A h \in Heights : h \in Nat /\ LineAdvance <= h /\ h + LineAdvance < Wrap
<1>1. Cardinality(Writers) \in Nat \ {0}
  BY WritersAssumption, FS_CardinalityType, FS_EmptySet
<1>2. Lines(1) <= Lines(Cardinality(Writers)) /\ Lines(1) = LineAdvance
  <2>1. Lines(1) = LineAdvance
    BY FontAssumption DEF Lines
  <2>2. QED BY <1>1, <2>1, LinesGrow
<1>3. Lines(Cardinality(Writers)) \in Nat
  BY <1>1, LinesGrow
<1>4. ASSUME NEW h \in Heights
      PROVE  h \in Nat /\ LineAdvance <= h /\ h + LineAdvance < Wrap
  <2>1. h \in Nat /\ Lines(Cardinality(Writers)) <= h
        /\ h + Lines(Cardinality(Writers)) < Wrap /\ Wrap \in Nat
    BY ScreenAssumption DEF Lines
  <2>2. QED BY <1>2, <1>3, <2>1, FontAssumption
<1>5. QED BY <1>4, FontAssumption, ScreenAssumption

(* The writer w goes to label l: it is the only one that is not idle.       *)
LEMMA AloneMove ==
  ASSUME pc \in [Writers -> Labels], NEW w \in Writers, NEW l \in Labels, Goto(w, l),
         \A v \in Writers \ {w} : pc[v] = "idle",
         l = "idle" => Resting',
         l # "idle" => (OnLine(w) /\ BelowLine(w) /\ Loaded(w))'
  PROVE  AloneInv'
<1>1. pc'[w] = l /\ \A v \in Writers \ {w} : pc'[v] = "idle"
  BY DEF Goto
<1>2. Idle' => l = "idle"
  BY <1>1 DEF Idle
<1>3. \A u, v \in Writers : pc'[u] # "idle" /\ pc'[v] # "idle" => u = v
  BY <1>1
<1>4. ASSUME NEW v \in Writers, pc'[v] # "idle"
      PROVE  (OnLine(v) /\ BelowLine(v) /\ Loaded(v))'
  <2>1. v = w /\ l # "idle"
    BY <1>1, <1>4
  <2>2. QED BY <2>1
<1>5. QED BY <1>2, <1>3, <1>4 DEF AloneInv

LEMMA AloneStep == TypeOK /\ (~mixed => AloneInv) /\ [Next]_vars => (~mixed' => AloneInv')
<1>. SUFFICES ASSUME TypeOK, ~mixed => AloneInv, [Next]_vars, ~mixed' PROVE AloneInv'
  OBVIOUS
<1>0. /\ pc \in [Writers -> Labels] /\ reg \in [Writers -> 0 .. (Wrap - 1)]
      /\ height \in Nat /\ LineAdvance <= height /\ height + LineAdvance < Wrap
      /\ g_CursorX \in Nat /\ g_CursorY \in Nat /\ ink \subseteq Int
  BY OneLine DEF TypeOK, Rows
<1>1. ASSUME NEW w \in Writers, PutChar(w) PROVE AloneInv'
  <2>0. AloneInv /\ (pc[w] = "idle" => Idle)
    <3>1. mixed \in BOOLEAN
      BY DEF TypeOK
    <3>2. CASE Newline(w) \/ Draw(w)
      BY <3>1, <3>2 DEF Newline, Draw, Enter
    <3>3. CASE pc[w] # "idle" /\ UNCHANGED mixed
      BY <3>3
    <3>4. QED
      BY <1>1, <3>2, <3>3
      DEF PutChar, LoadX, StoreX, CheckX, LoadY, StoreY, CheckY, Scroll, LoadBack, StoreBack
  <2>a. \A v \in Writers \ {w} : pc[v] = "idle"
    BY <2>0 DEF AloneInv, Idle
  <2>b. pc[w] = "idle" => Resting
    BY <2>0 DEF AloneInv
  <2>c. pc[w] # "idle" => OnLine(w) /\ BelowLine(w) /\ Loaded(w)
    BY <2>0 DEF AloneInv
  <2>d. ASSUME NEW l \in Labels, Goto(w, l) PROVE pc'[w] = l
    BY <1>0, <2>d DEF Goto
  <2>1. CASE Newline(w)
    <3>1. Goto(w, "load_y") /\ pc'[w] = "load_y"
      BY <2>1, <2>d DEF Newline, Labels
    <3>2. Resting /\ g_CursorX' = 0 /\ UNCHANGED <<height, g_CursorY, ink>>
      BY <2>1, <2>b DEF Newline, Enter
    <3>3. (OnLine(w) /\ BelowLine(w) /\ Loaded(w))'
      BY <3>1, <3>2 DEF Resting, OnLine, BelowLine, Loaded, Above
    <3>4. QED BY <1>0, <2>a, <3>1, <3>3, AloneMove DEF Labels
  <2>2. CASE Draw(w)
    <3>1. Goto(w, "load_x") /\ pc'[w] = "load_x"
      BY <2>2, <2>d DEF Draw, Labels
    <3>2. Resting /\ UNCHANGED <<height, g_CursorX, g_CursorY>>
      BY <2>2, <2>b DEF Draw, Enter, cursor
    <3>3. \A y \in ink' : y < g_CursorY + LineAdvance
      <4>1. ASSUME NEW y \in g_CursorY .. (g_CursorY + CharH - 1)
            PROVE  y < g_CursorY + LineAdvance
        BY <1>0, OneLine
      <4>2. \A y \in ink : y < g_CursorY + LineAdvance
        BY <3>2 DEF Resting, Above
      <4>3. ink' \subseteq ink \union (g_CursorY .. (g_CursorY + CharH - 1))
        BY <2>2 DEF Draw
      <4>4. QED BY <4>1, <4>2, <4>3
    <3>4. (OnLine(w) /\ BelowLine(w) /\ Loaded(w))'
      BY <3>1, <3>2, <3>3 DEF Resting, OnLine, BelowLine, Loaded, Above
    <3>5. QED BY <1>0, <2>a, <3>1, <3>4, AloneMove DEF Labels
  <2>3. CASE LoadX(w)
    <3>1. Goto(w, "store_x") /\ pc'[w] = "store_x" /\ pc[w] = "load_x"
      BY <2>3, <2>d DEF LoadX, Labels
    <3>2. UNCHANGED <<height, g_CursorX, g_CursorY, ink>> /\ reg'[w] = g_CursorX
      BY <1>0, <2>3 DEF LoadX, Load, cursor
    <3>3. (OnLine(w) /\ BelowLine(w) /\ Loaded(w))'
      BY <2>c, <3>1, <3>2 DEF OnLine, BelowLine, Loaded, Above
    <3>4. QED BY <1>0, <2>a, <3>1, <3>3, AloneMove DEF Labels
  \* The column does not wrap: there was room in the line.
  <2>4. CASE StoreX(w)
    <3>1. Goto(w, "check_x") /\ pc'[w] = "check_x" /\ pc[w] = "store_x"
      BY <2>4, <2>d DEF StoreX, Labels
    <3>2. UNCHANGED <<height, g_CursorY, ink>>
      BY <2>4 DEF StoreX
    <3>3. g_CursorX' # 0
      <4>1. reg[w] + CharW <= Width /\ reg[w] \in Nat
        BY <1>0, <2>c, <3>1 DEF OnLine, Loaded
      <4>2. reg[w] + CharW \in 0 .. (Wrap - 1) /\ reg[w] + CharW # 0
        BY <4>1, OneLine
      <4>3. QED BY <2>4, <4>2, InRange DEF StoreX
    <3>4. (OnLine(w) /\ BelowLine(w) /\ Loaded(w))'
      BY <2>c, <3>1, <3>2, <3>3 DEF OnLine, BelowLine, Loaded, Above
    <3>5. QED BY <1>0, <2>a, <3>1, <3>4, AloneMove DEF Labels
  <2>5. CASE CheckX(w)
    <3>0. pc[w] = "check_x" /\ UNCHANGED <<height, g_CursorY, ink>>
      BY <2>5 DEF CheckX
    <3>1. CASE g_CursorX + CharW > Width
      <4>1. Goto(w, "load_y") /\ pc'[w] = "load_y" /\ g_CursorX' = 0
        BY <2>5, <2>d, <3>1 DEF CheckX, Labels
      <4>2. (OnLine(w) /\ BelowLine(w) /\ Loaded(w))'
        BY <2>c, <3>0, <4>1 DEF OnLine, BelowLine, Loaded, Above
      <4>3. QED BY <1>0, <2>a, <4>1, <4>2, AloneMove DEF Labels
    <3>2. CASE ~(g_CursorX + CharW > Width)
      <4>1. Goto(w, "idle") /\ UNCHANGED g_CursorX
        BY <2>5, <3>2 DEF CheckX
      <4>2. g_CursorX + CharW <= Width
        BY <1>0, <3>2, OneLine
      <4>3. Resting'
        BY <2>c, <3>0, <4>1, <4>2 DEF OnLine, Resting, Above
      <4>4. QED BY <1>0, <2>a, <4>1, <4>3, AloneMove DEF Labels
    <3>3. QED BY <3>1, <3>2
  <2>6. CASE LoadY(w)
    <3>1. Goto(w, "store_y") /\ pc'[w] = "store_y" /\ pc[w] = "load_y"
      BY <2>6, <2>d DEF LoadY, Labels
    <3>2. UNCHANGED <<height, g_CursorX, g_CursorY, ink>> /\ reg'[w] = g_CursorY
      BY <1>0, <2>6 DEF LoadY, Load, cursor
    <3>3. (OnLine(w) /\ BelowLine(w) /\ Loaded(w))'
      BY <2>c, <3>1, <3>2 DEF OnLine, BelowLine, Loaded, Above
    <3>4. QED BY <1>0, <2>a, <3>1, <3>3, AloneMove DEF Labels
  \* The text ended above the next line, which is where the cursor goes.
  <2>7. CASE StoreY(w)
    <3>1. Goto(w, "check_y") /\ pc'[w] = "check_y" /\ pc[w] = "store_y"
      BY <2>7, <2>d DEF StoreY, Labels
    <3>2. UNCHANGED <<height, g_CursorX, ink>>
      BY <2>7 DEF StoreY
    <3>3. /\ reg[w] = g_CursorY /\ g_CursorX = 0
          /\ g_CursorY < height /\ Above(g_CursorY + LineAdvance)
      BY <2>c, <3>1 DEF OnLine, Loaded
    <3>4. g_CursorY' = g_CursorY + LineAdvance
      <4>1. g_CursorY + LineAdvance \in 0 .. (Wrap - 1)
        BY <1>0, <3>3, OneLine
      <4>2. QED BY <2>7, <3>3, <4>1, InRange DEF StoreY
    <3>5. g_CursorY' < height + LineAdvance
      BY <1>0, <3>3, <3>4, OneLine
    <3>6. (OnLine(w) /\ BelowLine(w) /\ Loaded(w))'
      BY <3>1, <3>2, <3>3, <3>4, <3>5 DEF OnLine, BelowLine, Loaded, Above
    <3>7. QED BY <1>0, <2>a, <3>1, <3>6, AloneMove DEF Labels
  <2>8. CASE CheckY(w)
    <3>0. pc[w] = "check_y" /\ UNCHANGED <<height, g_CursorX, g_CursorY, ink>>
      BY <2>8 DEF CheckY, cursor
    <3>1. Above(g_CursorY) /\ g_CursorY < height + LineAdvance /\ g_CursorX = 0
      BY <2>c, <3>0 DEF OnLine, BelowLine
    <3>2. CASE g_CursorY >= height
      <4>1. Goto(w, "scroll") /\ pc'[w] = "scroll"
        BY <2>8, <2>d, <3>2 DEF CheckY, Labels
      <4>2. height <= g_CursorY
        BY <1>0, <3>2
      <4>3. (OnLine(w) /\ BelowLine(w) /\ Loaded(w))'
        BY <3>0, <3>1, <4>1, <4>2 DEF OnLine, BelowLine, Loaded, Above
      <4>4. QED BY <1>0, <2>a, <4>1, <4>3, AloneMove DEF Labels
    <3>3. CASE ~(g_CursorY >= height)
      <4>1. Goto(w, "idle")
        BY <2>8, <3>3 DEF CheckY
      <4>2. g_CursorY < height
        BY <1>0, <3>3
      <4>3. \A y \in ink : y < g_CursorY + LineAdvance
        BY <1>0, <3>1, OneLine DEF Above
      <4>4. g_CursorX + CharW <= Width
        BY <3>1, ScreenAssumption, FontAssumption
      <4>5. Resting'
        BY <3>0, <3>1, <4>2, <4>3, <4>4 DEF Resting, Above
      <4>6. QED BY <1>0, <2>a, <4>1, <4>5, AloneMove DEF Labels
    <3>4. QED BY <3>2, <3>3
  \* Every row takes what was a line below, so the text ends a line higher.
  <2>9. CASE Scroll(w)
    <3>1. Goto(w, "load_back") /\ pc'[w] = "load_back" /\ pc[w] = "scroll"
      BY <2>9, <2>d DEF Scroll, Labels
    <3>2. UNCHANGED <<height, g_CursorX, g_CursorY>>
      BY <2>9 DEF Scroll, cursor
    <3>3. /\ Above(g_CursorY) /\ g_CursorX = 0
          /\ height <= g_CursorY /\ g_CursorY < height + LineAdvance
      BY <2>c, <3>1 DEF OnLine, BelowLine
    <3>4. \A y \in ink' : y < g_CursorY - LineAdvance
      <4>1. ASSUME NEW y \in ink' PROVE y < g_CursorY - LineAdvance
        <5>1. y \in Int /\ y + LineAdvance \in ink
          BY <2>9 DEF Scroll, Rows
        <5>2. y + LineAdvance < g_CursorY
          BY <3>3, <5>1 DEF Above
        <5>3. QED BY <1>0, <5>1, <5>2, OneLine
      <4>2. QED BY <4>1
    <3>5. (OnLine(w) /\ BelowLine(w) /\ Loaded(w))'
      BY <3>1, <3>2, <3>3, <3>4 DEF OnLine, BelowLine, Loaded, Above
    <3>6. QED BY <1>0, <2>a, <3>1, <3>5, AloneMove DEF Labels
  <2>10. CASE LoadBack(w)
    <3>1. Goto(w, "store_back") /\ pc'[w] = "store_back" /\ pc[w] = "load_back"
      BY <2>10, <2>d DEF LoadBack, Labels
    <3>2. UNCHANGED <<height, g_CursorX, g_CursorY, ink>> /\ reg'[w] = g_CursorY
      BY <1>0, <2>10 DEF LoadBack, Load, cursor
    <3>3. (OnLine(w) /\ BelowLine(w) /\ Loaded(w))'
      BY <2>c, <3>1, <3>2 DEF OnLine, BelowLine, Loaded, Above
    <3>4. QED BY <1>0, <2>a, <3>1, <3>3, AloneMove DEF Labels
  \* The cursor follows the text.
  <2>11. CASE StoreBack(w)
    <3>1. Goto(w, "idle") /\ pc[w] = "store_back"
      BY <2>11 DEF StoreBack
    <3>2. UNCHANGED <<height, g_CursorX, ink>>
      BY <2>11 DEF StoreBack
    <3>3. /\ reg[w] = g_CursorY /\ Above(g_CursorY - LineAdvance)
          /\ height <= g_CursorY /\ g_CursorY < height + LineAdvance
      BY <2>c, <3>1 DEF BelowLine, Loaded
    <3>4. g_CursorY' = g_CursorY - LineAdvance
      <4>1. g_CursorY - LineAdvance \in 0 .. (Wrap - 1)
        BY <1>0, <3>3, OneLine
      <4>2. QED BY <2>11, <3>3, <4>1, InRange DEF StoreBack
    <3>5. g_CursorY' < height /\ g_CursorY' \in Int
      BY <1>0, <3>3, <3>4, OneLine
    <3>6. \A y \in ink : y < g_CursorY' /\ y < g_CursorY' + LineAdvance
      BY <1>0, <3>3, <3>4, <3>5, OneLine DEF Above
    <3>7. g_CursorX + CharW <= Width
      BY <2>c, <3>1, ScreenAssumption, FontAssumption DEF OnLine
    <3>8. Resting'
      BY <3>2, <3>5, <3>6, <3>7 DEF Resting, Above
    <3>9. QED BY <1>0, <2>a, <3>1, <3>8, AloneMove DEF Labels
  <2>12. QED
    BY <1>1, <2>1, <2>2, <2>3, <2>4, <2>5, <2>6, <2>7, <2>8, <2>9, <2>10, <2>11 DEF PutChar
<1>2. CASE UNCHANGED vars
  <2>1. AloneInv /\ UNCHANGED <<height, g_CursorX, g_CursorY, ink, pc, reg>>
    BY <1>2 DEF vars, cursor
  <2>2. QED
    BY <2>1 DEF AloneInv, Idle, Resting, OnLine, BelowLine, Loaded, Above
<1>3. QED BY <1>1, <1>2 DEF Next

(***************************************************************************)
(* Without preemption, on every screen and with every font, a new line     *)
(* starts on empty rows: scroll_up moves and clears exactly what PutChar   *)
(* steps back over (console.c:23-43, 83-86).                               *)
(***************************************************************************)
THEOREM ScrollCorrect == Spec => []FreshLine
<1>1. Init => TypeOK /\ (~mixed => AloneInv)
  <2>. SUFFICES ASSUME Init PROVE TypeOK /\ AloneInv
    OBVIOUS
  <2>1. TypeOK
    BY InitColumn DEF ColumnInv
  <2>2. \A w \in Writers : pc[w] = "idle"
    BY DEF Init
  <2>3. height \in Heights /\ g_CursorX = 0 /\ g_CursorY = 0 /\ ink = {}
    BY DEF Init
  <2>4. 0 < height /\ 0 + CharW <= Width
    BY <2>3, OneLine, ScreenAssumption
  <2>5. Resting
    BY <2>3, <2>4 DEF Resting, Above
  <2>6. QED BY <2>1, <2>2, <2>5 DEF AloneInv
<1>2. TypeOK /\ (~mixed => AloneInv) /\ [Next]_vars => TypeOK' /\ (~mixed' => AloneInv')
  BY TypeStep, AloneStep
<1>3. TypeOK /\ (~mixed => AloneInv) => FreshLine
  <2>. SUFFICES ASSUME TypeOK, AloneInv, Idle, g_CursorX = 0, NEW y \in ink
                PROVE  y \notin g_CursorY .. (height - 1)
    BY DEF FreshLine
  <2>1. y < g_CursorY
    BY DEF AloneInv, Resting, Above
  <2>2. y \in Int /\ g_CursorY \in Int
    BY DEF TypeOK, Rows
  <2>3. QED BY <2>1, <2>2
<1>4. QED BY <1>1, <1>2, <1>3, PTL DEF Spec
=============================================================================

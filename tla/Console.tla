------------------------------ MODULE Console ------------------------------
(***************************************************************************)
(* PutChar of the framebuffer console (console.c).  The cursor is shared   *)
(* by everything that prints: kernel_main and the two tasks, which the     *)
(* timer interrupt stops anywhere.  The kernel is built without            *)
(* optimisation, so g_CursorX += w is a load and, later, a store.          *)
(*                                                                         *)
(* Of the frame buffer the model keeps which pixel rows have text on them. *)
(***************************************************************************)
EXTENDS Integers, FiniteSets

CONSTANTS
  Writers,      \* the tasks that print
  CharW,        \* console_char_w
  CharH,        \* console_char_h
  LineAdvance,  \* console_line_advance
  Width,        \* of the screen
  Heights,      \* the heights a screen can have
  Wrap          \* one more than the largest coordinate: 2^32

(* Every screen has room for a line for each writer and for one character. *)
ASSUME FontAssumption == CharW \in Nat \ {0} /\ CharH \in Nat \ {0} /\ LineAdvance \in Nat
                         /\ CharH <= LineAdvance
ASSUME WritersAssumption == IsFiniteSet(Writers) /\ Writers # {}
ASSUME ScreenAssumption ==
  /\ Width \in Nat /\ CharW <= Width /\ Width < Wrap
  /\ Heights \subseteq Nat
  /\ \A h \in Heights : Cardinality(Writers) * LineAdvance <= h
  /\ Wrap \in Nat \ {0}
  /\ \A h \in Heights : h + Cardinality(Writers) * LineAdvance < Wrap

VARIABLES
  height,                \* of this screen
  g_CursorX, g_CursorY,
  ink,                   \* the pixel rows with text on them
  pc,                    \* where each writer is in PutChar
  reg,                   \* the register with the value each writer loaded
  torn,                  \* history: a line was stored that was computed from an old one
  mixed                  \* history: two writers were in PutChar at the same time

cursor == <<g_CursorX, g_CursorY>>
vars == <<height, cursor, ink, pc, reg, torn, mixed>>

Rows == 0 .. (height - 1)
Labels == {"idle", "load_x", "store_x", "check_x", "load_y", "store_y", "check_y",
           "scroll", "load_back", "store_back"}
Idle == \A w \in Writers : pc[w] = "idle"

TypeOK ==
  /\ height \in Heights
  /\ g_CursorX \in 0 .. (Wrap - 1) /\ g_CursorY \in 0 .. (Wrap - 1)
  /\ ink \subseteq Rows
  /\ pc \in [Writers -> Labels]
  /\ reg \in [Writers -> 0 .. (Wrap - 1)]
  /\ torn \in BOOLEAN /\ mixed \in BOOLEAN

(* kernel_main has cleared the frame buffer. *)
Init ==
  /\ height \in Heights
  /\ g_CursorX = 0 /\ g_CursorY = 0
  /\ ink = {}
  /\ pc = [w \in Writers |-> "idle"]
  /\ reg = [w \in Writers |-> 0]
  /\ torn = FALSE /\ mixed = FALSE

-----------------------------------------------------------------------------
Goto(w, label) == pc' = [pc EXCEPT ![w] = label]

(* A writer enters PutChar. *)
Enter(w) ==
  /\ pc[w] = "idle"
  /\ mixed' = (mixed \/ ~Idle)

(* The register of w; 0 once its value has been stored. *)
Load(w, value) == reg' = [reg EXCEPT ![w] = value]

Newline(w) ==
  /\ Enter(w)
  /\ g_CursorX' = 0
  /\ Goto(w, "load_y")
  /\ UNCHANGED <<height, g_CursorY, ink, reg, torn>>

(* Any other character is drawn, as far as it is on the screen. *)
Draw(w) ==
  /\ Enter(w)
  /\ ink' = ink \union (Rows \intersect (g_CursorY .. (g_CursorY + CharH - 1)))
  /\ Goto(w, "load_x")
  /\ UNCHANGED <<height, cursor, reg, torn>>

LoadX(w) ==
  /\ pc[w] = "load_x"
  /\ Load(w, g_CursorX)
  /\ Goto(w, "store_x")
  /\ UNCHANGED <<height, cursor, ink, torn, mixed>>

StoreX(w) ==
  /\ pc[w] = "store_x"
  /\ g_CursorX' = (reg[w] + CharW) % Wrap
  /\ Load(w, 0)
  /\ Goto(w, "check_x")
  /\ UNCHANGED <<height, g_CursorY, ink, torn, mixed>>

(* Faulty variant: the next character is not counted. *)
CheckXOffByOne(w) ==
  /\ pc[w] = "check_x"
  /\ IF g_CursorX > Width
     THEN g_CursorX' = 0 /\ Goto(w, "load_y")
     ELSE UNCHANGED g_CursorX /\ Goto(w, "idle")
  /\ UNCHANGED <<height, g_CursorY, ink, reg, torn, mixed>>

(* Another character must fit, or the line is over. *)
CheckX(w) ==
  /\ pc[w] = "check_x"
  /\ IF g_CursorX + CharW > Width
     THEN g_CursorX' = 0 /\ Goto(w, "load_y")
     ELSE UNCHANGED g_CursorX /\ Goto(w, "idle")
  /\ UNCHANGED <<height, g_CursorY, ink, reg, torn, mixed>>

LoadY(w) ==
  /\ pc[w] = "load_y"
  /\ Load(w, g_CursorY)
  /\ Goto(w, "store_y")
  /\ UNCHANGED <<height, cursor, ink, torn, mixed>>

StoreY(w) ==
  /\ pc[w] = "store_y"
  /\ g_CursorY' = (reg[w] + LineAdvance) % Wrap
  /\ torn' = (torn \/ g_CursorY # reg[w])
  /\ Load(w, 0)
  /\ Goto(w, "check_y")
  /\ UNCHANGED <<height, g_CursorX, ink, mixed>>

(* Faulty variant: the last line still counts as on the screen. *)
CheckYOffByOne(w) ==
  /\ pc[w] = "check_y"
  /\ Goto(w, IF g_CursorY > height THEN "scroll" ELSE "idle")
  /\ UNCHANGED <<height, cursor, ink, reg, torn, mixed>>

CheckY(w) ==
  /\ pc[w] = "check_y"
  /\ Goto(w, IF g_CursorY >= height THEN "scroll" ELSE "idle")
  /\ UNCHANGED <<height, cursor, ink, reg, torn, mixed>>

(* Faulty variant: the bottom line is not cleared. *)
ScrollUncleared(w) ==
  /\ pc[w] = "scroll"
  /\ ink' = {y \in Rows : IF y + LineAdvance < height THEN y + LineAdvance \in ink ELSE y \in ink}
  /\ Goto(w, "load_back")
  /\ UNCHANGED <<height, cursor, reg, torn, mixed>>

(* scroll_up: every row takes what was a line below, the last are cleared. *)
Scroll(w) ==
  /\ pc[w] = "scroll"
  /\ ink' = {y \in Rows : y + LineAdvance \in ink}
  /\ Goto(w, "load_back")
  /\ UNCHANGED <<height, cursor, reg, torn, mixed>>

LoadBack(w) ==
  /\ pc[w] = "load_back"
  /\ Load(w, g_CursorY)
  /\ Goto(w, "store_back")
  /\ UNCHANGED <<height, cursor, ink, torn, mixed>>

StoreBack(w) ==
  /\ pc[w] = "store_back"
  /\ g_CursorY' = (reg[w] - LineAdvance) % Wrap
  /\ torn' = (torn \/ g_CursorY # reg[w])
  /\ Load(w, 0)
  /\ Goto(w, "idle")
  /\ UNCHANGED <<height, g_CursorX, ink, mixed>>

PutChar(w) ==
  \/ Newline(w) \/ Draw(w)
  \/ LoadX(w) \/ StoreX(w) \/ CheckX(w)
  \/ LoadY(w) \/ StoreY(w) \/ CheckY(w)
  \/ Scroll(w) \/ LoadBack(w) \/ StoreBack(w)

Next == \E w \in Writers : PutChar(w)

Spec == Init /\ [][Next]_vars

-----------------------------------------------------------------------------
(***************************************************************************)
(* Whoever interrupts whom: when nobody is printing, the next character    *)
(* has room in its line (console.c:80).  Lost updates of the column do no  *)
(* harm, because the column is set to 0 and not counted back.              *)
(***************************************************************************)
RoomForNext == Idle => g_CursorX + CharW <= Width

(***************************************************************************)
(* The cursor and the writers' registers are well formed and there is room *)
(* for the next character, whoever interrupts whom.                        *)
(***************************************************************************)
Inv == TypeOK /\ RoomForNext

(***************************************************************************)
(* The check, the scroll and the step back of several writers can be       *)
(* interleaved in any order (console.c:83-86); as long as no line was      *)
(* stored that was computed from an old one, the cursor is back on the     *)
(* screen when nobody is printing.  The line is all on the screen if the   *)
(* height leaves no part of a character below the last whole line.         *)
(***************************************************************************)
CursorOnScreen ==
  ~torn /\ Idle =>
    /\ g_CursorY < height
    /\ height % LineAdvance \notin 1 .. (CharH - 1) => g_CursorY + CharH <= height

(***************************************************************************)
(* Without preemption a new line starts on empty rows: scrolling moves and *)
(* clears exactly what the cursor steps back over (console.c:23-43).       *)
(***************************************************************************)
FreshLine ==
  ~mixed /\ Idle /\ g_CursorX = 0 => ink \intersect (g_CursorY .. (height - 1)) = {}
=============================================================================

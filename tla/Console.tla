------------------------------ MODULE Console ------------------------------
(***************************************************************************)
(* The keyboard driver (drivers/keyboard/pc-kbd.c): a ring buffer filled   *)
(* by the interrupt handler and emptied by the one thread that has the     *)
(* device open.                                                            *)
(*                                                                         *)
(* Keys are numbered in the order they are pressed, modulo a number larger *)
(* than the buffer, which tells a key from those it could be mixed up      *)
(* with.  Key releases are skipped by the handler.                         *)
(***************************************************************************)
EXTENDS Integers, Sequences

CONSTANTS
    KEYBOARD_BUFSIZE,
    Preemptible     \* the reader is a kernel thread, with interrupts on

VARIABLES
    users, read_idx, write_idx, key_buf,
    reader,         \* "idle", "dequeue": it found the buffer empty, "asleep"
    pressed,        \* number of the next key
    unread,         \* history: keys the driver has taken and not handed out
    overrun,        \* history: a key came to BUFSIZE - 1 or more unread ones
    mixed           \* history: a read returned another key than the oldest

kbd_vars == <<users, read_idx, write_idx, key_buf, reader, pressed, unread, overrun, mixed>>

ASSUME KbdAssumption == KEYBOARD_BUFSIZE \in Nat \ {0, 1} /\ Preemptible \in BOOLEAN

Keys == 0..KEYBOARD_BUFSIZE

\* pckbd_load
KbdInit ==
    /\ users = 0 /\ read_idx = 0 /\ write_idx = 0
    /\ key_buf = [i \in 0..(KEYBOARD_BUFSIZE - 1) |-> 0]
    /\ reader = "idle" /\ pressed = 0
    /\ unread = <<>> /\ overrun = FALSE /\ mixed = FALSE

\* -EBUSY, which changes nothing, while there is a user.
pckbd_open ==
    /\ users = 0
    /\ users' = 1 /\ read_idx' = 0 /\ write_idx' = 0
    /\ unread' = <<>> /\ overrun' = FALSE /\ mixed' = FALSE
    /\ UNCHANGED <<key_buf, reader, pressed>>

\* The only user is in no other call, so no thread is waiting.
pckbd_close ==
    /\ users = 1 /\ reader = "idle"
    /\ users' = 0
    /\ UNCHANGED <<read_idx, write_idx, key_buf, reader, pressed, unread, overrun, mixed>>

\* Mutant: the indices are compared after write_idx has been rewound to read_idx.
RewindFull(i) == IF i + 1 = KEYBOARD_BUFSIZE THEN 0 ELSE i

Rewind(i) == IF i = KEYBOARD_BUFSIZE THEN 0 ELSE i

\* scheduler_enqueue
Awake(r) == IF r = "asleep" THEN "idle" ELSE r

\* pckbd_intr
pckbd_intr ==
    LET w == Rewind(write_idx)
        full == w + 1 = read_idx
    IN  /\ Preemptible \/ reader # "dequeue"
        /\ pressed' = (pressed + 1) % (KEYBOARD_BUFSIZE + 1)
        /\ IF users = 0
           THEN UNCHANGED <<users, read_idx, write_idx, key_buf, reader, unread, overrun>>
           ELSE /\ write_idx' = IF full THEN w ELSE w + 1
                /\ key_buf' = IF full THEN key_buf ELSE [key_buf EXCEPT ![w] = pressed]
                /\ reader' = Awake(reader)
                /\ overrun' = (overrun \/ Len(unread) >= KEYBOARD_BUFSIZE - 1)
                /\ unread' = IF overrun' THEN <<>> ELSE Append(unread, pressed)
                /\ UNCHANGED <<users, read_idx>>
        /\ UNCHANGED mixed

\* pckbd_read, pckbd_dev_read: the key is translated by a table.
pckbd_read ==
    /\ users = 1 /\ reader = "idle"
    /\ IF read_idx = write_idx
       THEN /\ reader' = "dequeue"
            /\ UNCHANGED <<read_idx, unread, mixed>>
       ELSE LET r == Rewind(read_idx)
            IN  /\ read_idx' = r + 1
                /\ unread' = IF unread = <<>> THEN unread ELSE Tail(unread)
                /\ mixed' = (mixed \/ unread = <<>> \/ Head(unread) # key_buf[r])
                /\ UNCHANGED reader
    /\ UNCHANGED <<users, write_idx, key_buf, pressed, overrun>>

\* The rest of pckbd_read with the buffer empty: it returns 0 when woken.
ReadSleep ==
    /\ reader = "dequeue"
    /\ reader' = "asleep"
    /\ UNCHANGED <<users, read_idx, write_idx, key_buf, pressed, unread, overrun, mixed>>

KbdNext == pckbd_open \/ pckbd_close \/ pckbd_intr \/ pckbd_read \/ ReadSleep

KbdSpec == KbdInit /\ [][KbdNext]_kbd_vars

-----------------------------------------------------------------------------
(* Properties. *)

\* Both indices stay within the buffer, whatever the handler and the reader
\* do in between.
KbdTypeOK ==
    /\ users \in {0, 1}
    /\ {read_idx, write_idx} \subseteq 0..KEYBOARD_BUFSIZE
    /\ key_buf \in [0..(KEYBOARD_BUFSIZE - 1) -> Keys]
    /\ reader \in {"idle", "dequeue", "asleep"} /\ pressed \in Keys
    /\ unread \in Seq(Keys) /\ {overrun, mixed} \subseteq BOOLEAN

(***************************************************************************)
(* However often the two indices of the ring wrap, each pckbd_read returns *)
(* the oldest key not read, as long as no key came while the buffer held   *)
(* KEYBOARD_BUFSIZE - 1 of them.  (After that the handler may have rewound *)
(* write_idx onto read_idx, and a full buffer looks empty.)                *)
(***************************************************************************)
KeysInOrder == ~overrun => ~mixed

(***************************************************************************)
(* The reader does not sleep while there is a key to read.  A reader that  *)
(* is a kernel thread (Preemptible) can: "trylock would be nice here".     *)
(***************************************************************************)
NoKeyMissed == reader = "asleep" => read_idx = write_idx

\* The keyboard's ring between handler and reader (pckbd_intr, pckbd_read): its
\* indices stay inside, keys come in order and none is overslept.
KeysSound == KbdTypeOK /\ KeysInOrder /\ NoKeyMissed

----------------------------------------------------------------------------
(***************************************************************************)
(* The console on the VGA text screen (arch/i386/vga_console.c), for one   *)
(* caller at a time.  Next to it, an endless sheet of paper on which the   *)
(* same text is written without ever scrolling.                            *)
(***************************************************************************)

CONSTANTS
    VGA_LINES, VGA_COLUMNS,
    Chars,              \* printable characters
    Newline, Blank,     \* '\n' and the 0 of a cleared cell
    MaxPrinted          \* bound of the characters printed

VARIABLES
    cursor, screen,     \* of the hardware
    printed,            \* number of characters printed
    paper, pen, torn    \* history: the sheet, the place on it, lines scrolled

vga_vars == <<cursor, screen, printed, paper, pen, torn>>

Cells == VGA_LINES * VGA_COLUMNS
PaperCells == (MaxPrinted + 1) * VGA_COLUMNS + Cells

ASSUME VgaAssumption ==
    /\ {VGA_LINES, VGA_COLUMNS} \subseteq Nat \ {0} /\ MaxPrinted \in Nat
    /\ {Newline, Blank} \cap Chars = {} /\ Newline # Blank

\* The BIOS has left a cleared screen and the cursor somewhere on it.
VgaInit ==
    /\ cursor \in 0..(Cells - 1) /\ screen = [i \in 0..(Cells - 1) |-> Blank]
    /\ printed = 0
    /\ paper = [i \in 0..(PaperCells - 1) |-> Blank] /\ pen = cursor /\ torn = 0

\* Mutant: the last line is not cleared.
ScrollOnly(s) ==
    [i \in 0..(Cells - 1) |->
        IF i < Cells - VGA_COLUMNS THEN s[i + VGA_COLUMNS] ELSE s[i]]

vga_scroll(s) ==
    [i \in 0..(Cells - 1) |->
        IF i < Cells - VGA_COLUMNS THEN s[i + VGA_COLUMNS] ELSE Blank]

LineStart(c) == c - (c % VGA_COLUMNS)

\* The newline of early_vga_put_char.
NewLine ==
    IF cursor < Cells - VGA_COLUMNS
    THEN /\ cursor' = LineStart(cursor) + VGA_COLUMNS
         /\ UNCHANGED <<screen, torn>>
    ELSE /\ screen' = vga_scroll(screen)
         /\ cursor' = LineStart(cursor)
         /\ torn' = torn + 1

AtEnd(c) == c = Cells

PutChar(c) ==
    LET s == IF AtEnd(cursor) THEN vga_scroll(screen) ELSE screen
        p == IF AtEnd(cursor) THEN cursor - VGA_COLUMNS ELSE cursor
    IN  /\ screen' = [s EXCEPT ![p] = c]
        /\ cursor' = p + 1
        /\ torn' = IF AtEnd(cursor) THEN torn + 1 ELSE torn

\* early_vga_put_char, console_put_char; vga_get_cursor and vga_set_cursor.
early_vga_put_char(c) ==
    /\ printed < MaxPrinted
    /\ printed' = printed + 1
    /\ IF c = Newline THEN NewLine ELSE PutChar(c)
    /\ pen' = IF c = Newline THEN LineStart(pen) + VGA_COLUMNS ELSE pen + 1
    /\ paper' = IF c = Newline THEN paper ELSE [paper EXCEPT ![pen] = c]

VgaNext == \E c \in Chars \cup {Newline} : early_vga_put_char(c)

VgaSpec == VgaInit /\ [][VgaNext]_vga_vars

-----------------------------------------------------------------------------
(* Properties. *)

(***************************************************************************)
(* The screen is a window on the paper: scrolling loses nothing but the    *)
(* first line and the cursor is where the pen is, also when the last line  *)
(* is full and the cursor is one cell after the screen.                    *)
(***************************************************************************)
ScreenIsWindow ==
    /\ cursor \in 0..Cells
    /\ pen = cursor + torn * VGA_COLUMNS
    /\ \A i \in 0..(Cells - 1) : screen[i] = paper[i + torn * VGA_COLUMNS]
============================================================================

------------------------------ MODULE TraceLog ------------------------------
(***************************************************************************)
(* The trace of the system and its log files: trace_printf of              *)
(* core/sys/trace.c over core/sys/fslog.c.  Threads print lines under the  *)
(* trace mutex into a ring buffer; it is written to a file at the end of a *)
(* line or when it is full, and a file that has grown too large is rotated *)
(* after the line, outside of the trace mutex.  The mutex of fslog guards  *)
(* the file.  A failure is reported with trace_printf itself.              *)
(*                                                                         *)
(* Characters are numbered in the order in which they are printed.         *)
(***************************************************************************)
EXTENDS Integers, Sequences, FiniteSets, SequencesExt

CONSTANTS
  Threads,
  NoThread,
  BufSize,    \* CFG_FSLOG_BUFSIZE
  FileSize,   \* CFG_FSLOG_ROTATE_FILESIZE
  NumFiles,   \* CFG_FSLOG_NUM_ROTATE_FILES
  LineLen,    \* characters of a line, '\n' included
  MaxLines    \* bound: lines printed

ASSUME ThreadsAssumption == NoThread \notin Threads
ASSUME FiniteAssumption == IsFiniteSet(Threads)
ASSUME SizesAssumption == /\ {BufSize, FileSize, NumFiles, LineLen} \subseteq Nat \ {0}
                          /\ BufSize > 1 /\ NumFiles > 1 /\ BufSize <= FileSize
ASSUME BoundAssumption == MaxLines \in Nat

NoFile == -1      \* size of a file that does not exist

VARIABLES
  pc,        \* pc[t]: where thread t is
  left,      \* left[t]: characters of its line that it has yet to print
  after,     \* after[t]: where it goes when fslog_flush returns
  inRotate,  \* inRotate[t]: its line reports that the file could not be opened
  trace,     \* owner of trace_mutex_id
  mutex,     \* owner of the mutex of fslog
  open,      \* fd # -1
  buf, head, tail,
  size,      \* size of the file 0
  rotated,   \* rotated[i]: size of the file i
  lines,     \* lines begun
  log,       \* history: all that was written, over all files
  put,       \* history: the number of the last character
  full,      \* history: the full buffer could not be flushed
  lost,      \* history: a character was overwritten before it was written
  raced,     \* history: two threads decided to rotate the same file
  failed     \* history: the file could not be opened or written

control == <<pc, left, after, inRotate>>
ring == <<buf, head, tail>>
file == <<open, size, rotated>>
history == <<log, put, full, lost, raced, failed>>
vars == <<control, trace, mutex, ring, file, lines, history>>

Init ==
  /\ pc = [t \in Threads |-> "idle"]
  /\ left = [t \in Threads |-> 0]
  /\ after = [t \in Threads |-> "put"]
  /\ inRotate = [t \in Threads |-> FALSE]
  /\ trace = NoThread /\ mutex = NoThread
  /\ open = TRUE
  /\ buf = [i \in 0 .. BufSize - 1 |-> 0] /\ head = 0 /\ tail = 0
  /\ size = 0 /\ rotated = [i \in 1 .. NumFiles - 1 |-> NoFile]
  /\ lines = 0
  /\ log = <<>> /\ put = 0
  /\ full = FALSE /\ lost = FALSE /\ raced = FALSE /\ failed = FALSE

Goto(t, place) == pc' = [pc EXCEPT ![t] = place]
-----------------------------------------------------------------------------
(* trace_printf. *)
TracePrintf(t) ==
  /\ pc[t] = "idle" /\ lines < MaxLines
  /\ lines' = lines + 1
  /\ Goto(t, "print")
  /\ UNCHANGED <<left, after, inRotate, trace, mutex, ring, file, history>>

(* osMutexWait(trace_mutex_id): not recursive, a thread that reports a     *)
(* failure from within its own line waits for itself.                      *)
LockTrace(t) ==
  /\ pc[t] = "print" /\ trace = NoThread
  /\ trace' = t
  /\ left' = [left EXCEPT ![t] = LineLen]
  /\ Goto(t, "put")
  /\ UNCHANGED <<after, inRotate, mutex, ring, file, lines, history>>

NextHead == (head + 1) % BufSize

(* Mutant of Stored: the head is not wrapped. *)
StoredUnwrapped(t) ==
  /\ buf' = [buf EXCEPT ![head] = put + 1]
  /\ head' = head + 1
  /\ put' = put + 1
  /\ lost' = (lost \/ put - Len(log) >= BufSize)
  /\ left' = [left EXCEPT ![t] = @ - 1]

(* The character goes into the buffer. *)
Stored(t) ==
  /\ buf' = [buf EXCEPT ![head] = put + 1]
  /\ head' = NextHead
  /\ put' = put + 1
  /\ lost' = (lost \/ put - Len(log) >= BufSize)
  /\ left' = [left EXCEPT ![t] = @ - 1]

(* fslog_putchar: a full buffer is flushed first, and then stored to, be   *)
(* it still full or not; so is the buffer after '\n'.                      *)
PutChar(t) ==
  /\ \/ pc[t] = "put" /\ NextHead # tail
     \/ pc[t] = "put_flushed"
  /\ Stored(t)
  /\ IF left[t] = 1 THEN Goto(t, "flush") /\ after' = [after EXCEPT ![t] = "unlock"]
                    ELSE Goto(t, "put") /\ after' = after
  /\ UNCHANGED <<inRotate, trace, mutex, tail, file, lines, log, full, raced, failed>>

PutFull(t) ==
  /\ pc[t] = "put" /\ NextHead = tail
  /\ Goto(t, "flush") /\ after' = [after EXCEPT ![t] = "put_flushed"]
  /\ UNCHANGED <<left, inRotate, trace, mutex, ring, file, lines, history>>

(* fslog_flush looks at fd before it takes the mutex, and does nothing     *)
(* while no file is open.                                                  *)
Flush(t) ==
  /\ pc[t] = "flush"
  /\ Goto(t, IF open THEN "flush_locked" ELSE after[t])
  /\ full' = (full \/ (~open /\ after[t] = "put_flushed"))
  /\ UNCHANGED <<left, after, inRotate, trace, mutex, ring, file, lines, log, put, lost, raced, failed>>

LockFlush(t) ==
  /\ pc[t] = "flush_locked" /\ mutex = NoThread
  /\ mutex' = t
  /\ Goto(t, "write")
  /\ UNCHANGED <<left, after, inRotate, trace, ring, file, lines, history>>

Chars(from, to) == [i \in 1 .. to - from |-> buf[from + i - 1]]

(* Mutant of Unsaved: what is before the head is forgotten when the buffer *)
(* has wrapped.                                                            *)
UnsavedToEnd == IF head > tail THEN Chars(tail, head) ELSE Chars(tail, BufSize)

(* From the tail to the head, by way of the end of the buffer when the     *)
(* head is not beyond the tail.                                            *)
Unsaved == IF head > tail THEN Chars(tail, head)
                          ELSE Chars(tail, BufSize) \o Chars(0, head)

Write(t) ==
  /\ pc[t] = "write" /\ open
  /\ log' = log \o Unsaved
  /\ size' = size + Len(Unsaved)
  /\ tail' = head
  /\ mutex' = NoThread
  /\ Goto(t, after[t])
  /\ UNCHANGED <<left, after, inRotate, trace, buf, head, open, rotated, lines, put, full, lost, raced, failed>>

(* VERIFY reports with trace_printf that the write failed. *)
WriteFails(t) ==
  /\ pc[t] = "write"
  /\ failed' = TRUE
  /\ Goto(t, "print")
  /\ UNCHANGED <<left, after, inRotate, trace, mutex, ring, file, lines, log, put, full, lost, raced>>

UnlockTrace(t) ==
  /\ pc[t] = "unlock"
  /\ trace' = NoThread
  /\ Goto(t, "size")
  /\ UNCHANGED <<left, after, inRotate, mutex, ring, file, lines, history>>
-----------------------------------------------------------------------------
Rotating == {"rotate", "close", "open", "done"}

(* Mutants of TooLarge: any file is; only a file of just this size is. *)
AnyFile == open
JustLarge == open /\ size = FileSize

(* fslog_size() >= CFG_FSLOG_ROTATE_FILESIZE *)
TooLarge == open /\ size >= FileSize

(* The line is printed: is the file to be rotated?  The line that reports  *)
(* from within fslog_rotate finds no open file, and goes on there.         *)
Size(t) ==
  /\ pc[t] = "size"
  /\ CASE TooLarge -> Goto(t, "rotate")
       [] ~TooLarge /\ inRotate[t] -> Goto(t, "done")
       [] ~TooLarge /\ ~inRotate[t] -> Goto(t, "idle")
  /\ raced' = (raced \/ (TooLarge /\ \E u \in Threads : pc[u] \in Rotating))
  /\ UNCHANGED <<left, after, inRotate, trace, mutex, ring, file, lines, log, put, full, lost, failed>>

(* fslog_rotate. *)
LockRotate(t) ==
  /\ pc[t] = "rotate" /\ mutex = NoThread
  /\ mutex' = t
  /\ Goto(t, "close")
  /\ UNCHANGED <<left, after, inRotate, trace, ring, file, lines, history>>

CloseFile(t) ==
  /\ pc[t] = "close"
  /\ open' = FALSE
  /\ Goto(t, "open")
  /\ UNCHANGED <<left, after, inRotate, trace, mutex, ring, size, rotated, lines, history>>

(* The last file is removed, the others are renamed, and a new file 0 is   *)
(* opened; open_rotate_file reports its failure with trace_printf, under   *)
(* the mutex of fslog.                                                     *)
OpenFile(t) ==
  /\ pc[t] = "open"
  /\ rotated' = [i \in DOMAIN rotated |-> IF i = 1 THEN size ELSE rotated[i - 1]]
  /\ \/ /\ open' = TRUE /\ size' = 0
        /\ Goto(t, "done")
        /\ UNCHANGED <<inRotate, failed>>
     \/ /\ open' = FALSE /\ size' = NoFile
        /\ Goto(t, "print")
        /\ inRotate' = [inRotate EXCEPT ![t] = TRUE] /\ failed' = TRUE
  /\ UNCHANGED <<left, after, trace, mutex, ring, lines, log, put, full, lost, raced>>

(* Mutant of UnlockRotate: the mutex is kept. *)
UnlockNever(t) ==
  /\ pc[t] = "done"
  /\ Goto(t, "idle")
  /\ inRotate' = [inRotate EXCEPT ![t] = FALSE]
  /\ UNCHANGED <<left, after, trace, mutex, ring, file, lines, history>>

UnlockRotate(t) ==
  /\ pc[t] = "done"
  /\ mutex' = NoThread
  /\ inRotate' = [inRotate EXCEPT ![t] = FALSE]
  /\ Goto(t, "idle")
  /\ UNCHANGED <<left, after, trace, ring, file, lines, history>>

Thread(t) ==
  \/ TracePrintf(t) \/ LockTrace(t) \/ PutChar(t) \/ PutFull(t) \/ Flush(t) \/ LockFlush(t)
  \/ Write(t) \/ WriteFails(t) \/ UnlockTrace(t) \/ Size(t)
  \/ LockRotate(t) \/ CloseFile(t) \/ OpenFile(t) \/ UnlockRotate(t)

Next == \E t \in Threads : Thread(t)

(* Every thread runs; a bounded number of lines cannot keep one that waits *)
(* for a mutex from it.                                                    *)
Fairness == \A t \in Threads : WF_vars(Thread(t))

Spec == Init /\ [][Next]_vars /\ Fairness
-----------------------------------------------------------------------------
(* The indices stay in the buffer and the characters left in the line.     *)
TypeOK ==
  /\ pc \in [Threads -> {"idle", "print", "put", "put_flushed", "flush", "flush_locked", "write",
                         "unlock", "size"} \cup Rotating]
  /\ left \in [Threads -> 0 .. LineLen]
  /\ after \in [Threads -> {"put", "put_flushed", "unlock"}]
  /\ inRotate \in [Threads -> BOOLEAN]
  /\ trace \in Threads \cup {NoThread} /\ mutex \in Threads \cup {NoThread}
  /\ buf \in [0 .. BufSize - 1 -> Nat] /\ put \in Nat /\ log \in Seq(Nat)
  /\ {head, tail} \subseteq 0 .. BufSize - 1
  /\ size \in Nat \cup {NoFile} /\ rotated \in [1 .. NumFiles - 1 -> Nat \cup {NoFile}]
  /\ {open, full, lost, raced, failed} \subseteq BOOLEAN

(* The place of index i in the buffer, counted from the tail. *)
Offset(i) == IF i >= tail THEN i - tail ELSE i - tail + BufSize

(* What is in the files is what was printed, in order and without a gap or *)
(* a repetition, and the rest is in the buffer, also when the buffer has   *)
(* become as full as one that looks empty.  Only when it is full while no  *)
(* file is open a character is ever overwritten.                           *)
LogGapless ==
  /\ lost => full
  /\ ~lost =>
       /\ log = [i \in 1 .. Len(log) |-> i]
       /\ put - Len(log) \in (IF head = tail THEN {0, BufSize} ELSE {Offset(head)})
       /\ \A i \in 0 .. BufSize - 1 :
            Offset(i) < put - Len(log) => buf[i] = Len(log) + Offset(i) + 1

(* A file is rotated when it has reached its size, not before, so that the *)
(* history that is kept is as long as it should be; unless two threads     *)
(* find the same file too large.                                           *)
RotatedFull == ~raced => \A i \in DOMAIN rotated : rotated[i] = NoFile \/ rotated[i] >= FileSize

(* The size is looked at after each line only, and not under a mutex: a    *)
(* file still grows beyond it by no more than a line of each thread.       *)
FileBounded ==
  \A n \in {size} \cup Range(rotated) : n < FileSize + Cardinality(Threads) * LineLen

(* trace_printf returns, whoever prints and rotates meanwhile, as long as  *)
(* the file system works: what reports its failures waits for mutexes that *)
(* the thread itself, or one that waits for it, may hold.                  *)
PrintReturns == \A t \in Threads : pc[t] # "idle" ~> (pc[t] = "idle" \/ failed)
=============================================================================

------------------------------- MODULE PtyTap -------------------------------
(***************************************************************************)
(* The threads of `homn run` (crates/homn-hook/src/pty.rs): the reader     *)
(* passes the child's output on and looks for the permission prompt in a   *)
(* window over it, the stdin thread and the reader send to one channel,    *)
(* the writer types what it takes from there, and the main thread waits    *)
(* for the child and then for the others.  What a lookup finds is          *)
(* PtyWrapper's.  External: the child, the terminal and the user.          *)
(***************************************************************************)
EXTENDS Integers, Sequences, FiniteSets, SequencesExt

CONSTANTS Bytes,
          Streams,    \* what the child may print, byte by byte
          Lead, Cont, \* the two bytes of a character that is not ASCII
          Pattern,     \* the bytes of the permission prompt
          BufSize, WindowMax,
          MaxKeys     \* bound: what the user types

ASSUME TapAssumption ==
    /\ Streams \subseteq Seq(Bytes) /\ Pattern \in Seq(Bytes) \ {<<>>}
    /\ BufSize \in Nat \ {0} /\ WindowMax \in Nat \ {0} /\ MaxKeys \in Nat

(* The prompt is ASCII, fits the window, and does not begin as it ends:      *)
(* "Do you want to proceed? (y/n):" (PtyConfig).                             *)
ASSUME PromptAssumption ==
    /\ Lead # Cont /\ \A i \in 1 .. Len(Pattern) : Pattern[i] \notin {Lead, Cont}
    /\ Len(Pattern) <= WindowMax
    /\ \A n \in 1 .. Len(Pattern) - 1 : \E i \in 1 .. n : Pattern[i] # Pattern[Len(Pattern) - n + i]

VARIABLES
    gating,   \* PtyConfig::gating_enabled
    stream,   \* what the child would print if it ran to its end
    written,  \* how many bytes of it are in the terminal
    shown,    \* how many of those have been read and passed on
    child,    \* "running" or "exited"
    window,   \* the reader's rolling window
    reader, stdin, writer,   \* the threads: "running" or "ended"
    main,     \* "child", "reader", "writer" (what it waits for) or "returned"
    channel,  \* messages for the writer: Refusal or a key of the user
    typed,    \* what the child has been typed
    keys,     \* how many keys the user has pressed
    looked    \* history: each lookup, by the bytes read then, and what it found

childVars == <<gating, stream, written, child>>
readerVars == <<shown, window, reader, looked>>
inputVars == <<stdin, keys>>
writerVars == <<writer, typed>>
tapVars == <<childVars, readerVars, inputVars, writerVars, main, channel>>

(* What decide_synth types; the user's keys are 1, 2, ...                    *)
Refusal == 0

-----------------------------------------------------------------------------
(* The child and the user.                                                   *)

ChildWrites ==
    /\ child = "running" /\ written < Len(stream)
    /\ written' = written + 1
    /\ UNCHANGED <<gating, stream, child, readerVars, inputVars, writerVars, main, channel>>

ChildExits ==
    /\ child = "running" /\ child' = "exited"
    /\ UNCHANGED <<gating, stream, written, readerVars, inputVars, writerVars, main, channel>>

(* A chunk of input; a channel without a receiver ends the thread.           *)
Key ==
    /\ stdin = "running" /\ keys < MaxKeys
    /\ keys' = keys + 1
    /\ IF writer = "ended" THEN stdin' = "ended" /\ UNCHANGED channel
       ELSE channel' = Append(channel, keys') /\ UNCHANGED stdin
    /\ UNCHANGED <<childVars, readerVars, writerVars, main>>

StdinEnds ==
    /\ stdin = "running" /\ stdin' = "ended"
    /\ UNCHANGED <<childVars, readerVars, keys, writerVars, main, channel>>

-----------------------------------------------------------------------------
(* master_reader_loop.                                                       *)

(* str::from_utf8: no character is cut.                                      *)
ValidText(bytes) ==
    /\ \A i \in DOMAIN bytes : bytes[i] = Cont <=> i > 1 /\ bytes[i - 1] = Lead
    /\ bytes # <<>> => Last(bytes) # Lead

PromptEnds(bytes) ==
    {i \in Len(Pattern) .. Len(bytes) : SubSeq(bytes, i - Len(Pattern) + 1, i) = Pattern}

Newest(bytes, n) == IF Len(bytes) > n THEN SubSeq(bytes, Len(bytes) - n + 1, Len(bytes)) ELSE bytes

Rolled_OnlyRead(bytes) == Newest(bytes, WindowMax)     \* mutant: the window starts over

Rolled(bytes) == Newest(window \o bytes, WindowMax)

After_Start(bytes, end) == SubSeq(bytes, end - Len(Pattern) + 1, Len(bytes))
                                                       \* mutant: cut up to the match

(* What lies behind the match: it is not answered again.                     *)
After(bytes, end) == SubSeq(bytes, end + 1, Len(bytes))

(* Only the last match counts, and only in a window that is text.            *)
Search(bytes) ==
    LET ends == IF ValidText(bytes) THEN PromptEnds(bytes) ELSE {}
        last == CHOOSE e \in ends : \A f \in ends : f <= e
    IN IF ends = {} THEN window' = bytes /\ UNCHANGED <<looked, channel, reader>>
       ELSE /\ window' = After(bytes, last)
            /\ \E found \in BOOLEAN :
                  /\ looked' = Append(looked, [at |-> shown', found |-> found])
                  /\ IF found /\ writer = "ended" THEN reader' = "ended" /\ UNCHANGED channel
                     ELSE /\ channel' = IF found THEN Append(channel, Refusal) ELSE channel
                          /\ UNCHANGED reader

Read(n) ==
    /\ reader = "running" /\ n \in 1 .. written - shown
    /\ shown' = shown + n
    /\ IF gating THEN Search(Rolled(SubSeq(stream, shown + 1, shown + n)))
       ELSE UNCHANGED <<window, looked, channel, reader>>
    /\ UNCHANGED <<childVars, inputVars, writerVars, main>>

(* End of file, or an error of the terminal, once the child is gone.         *)
ReadEnds ==
    /\ reader = "running" /\ child = "exited" /\ shown = written
    /\ reader' = "ended"
    /\ UNCHANGED <<childVars, shown, window, looked, inputVars, writerVars, main, channel>>

-----------------------------------------------------------------------------
(* spawn_writer_thread: recv fails when the channel is empty and nobody can  *)
(* send to it any more.                                                      *)

Senders_MainToo ==                                     \* mutant: write_tx is not dropped
    (IF reader = "running" THEN {"reader"} ELSE {}) \cup {"main"}
        \cup (IF stdin = "running" THEN {"stdin"} ELSE {})

Senders ==
    (IF reader = "running" THEN {"reader"} ELSE {})
        \cup (IF main = "child" THEN {"main"} ELSE {})
        \cup (IF stdin = "running" THEN {"stdin"} ELSE {})

Type ==
    /\ writer = "running" /\ channel # <<>>
    /\ typed' = Append(typed, Head(channel))
    /\ channel' = Tail(channel)
    /\ UNCHANGED <<childVars, readerVars, inputVars, writer, main>>

(* A terminal whose child is gone may refuse the write.                      *)
TypeFails ==
    /\ writer = "running" /\ channel # <<>> /\ child = "exited"
    /\ writer' = "ended" /\ channel' = <<>>
    /\ UNCHANGED <<childVars, readerVars, inputVars, typed, main>>

WriterEnds ==
    /\ writer = "running" /\ channel = <<>> /\ Senders = {}
    /\ writer' = "ended"
    /\ UNCHANGED <<childVars, readerVars, inputVars, typed, main, channel>>

-----------------------------------------------------------------------------
(* run_under_pty: wait_child, then join the reader and the writer.  The      *)
(* stdin thread is not joined.                                               *)

Joined_WriterFirst(next) == main' = IF next = "reader" THEN "writer" ELSE next
                                                       \* mutant: the reader is not joined

Joined(next) == main' = next

ChildReaped ==
    /\ main = "child" /\ child = "exited" /\ Joined("reader")
    /\ UNCHANGED <<childVars, readerVars, inputVars, writerVars, channel>>

JoinReader ==
    /\ main = "reader" /\ reader = "ended" /\ Joined("writer")
    /\ UNCHANGED <<childVars, readerVars, inputVars, writerVars, channel>>

JoinWriter ==
    /\ main = "writer" /\ writer = "ended" /\ Joined("returned")
    /\ UNCHANGED <<childVars, readerVars, inputVars, writerVars, channel>>

TapInit ==
    /\ gating \in BOOLEAN /\ stream \in Streams /\ written = 0 /\ shown = 0
    /\ child = "running" /\ window = <<>> /\ looked = <<>>
    /\ reader = "running" /\ stdin = "running" /\ writer = "running" /\ main = "child"
    /\ channel = <<>> /\ typed = <<>> /\ keys = 0

ReaderStep == ReadEnds \/ \E n \in 1 .. BufSize : Read(n)
WriterStep == Type \/ TypeFails \/ WriterEnds
MainStep == ChildReaped \/ JoinReader \/ JoinWriter

TapNext == ChildWrites \/ ChildExits \/ Key \/ StdinEnds \/ ReaderStep \/ WriterStep \/ MainStep

TapSpec == TapInit /\ [][TapNext]_tapVars

(* The threads of the wrapper run; the child need not exit, and the user     *)
(* need not type.                                                            *)
FairTapSpec == TapSpec /\ WF_tapVars(ReaderStep) /\ WF_tapVars(WriterStep) /\ WF_tapVars(MainStep)

-----------------------------------------------------------------------------
Printed == SubSeq(stream, 1, shown)

(* Every variable has its type.                                              *)
TapTypeOK ==
    /\ gating \in BOOLEAN /\ stream \in Streams
    /\ shown \in 0 .. written /\ written \in 0 .. Len(stream)
    /\ child \in {"running", "exited"} /\ main \in {"child", "reader", "writer", "returned"}
    /\ {reader, stdin, writer} \subseteq {"running", "ended"}
    /\ Len(window) <= WindowMax /\ window = Newest(Printed, Len(window))
    /\ keys \in 0 .. MaxKeys

(* A prompt the child is waiting at is looked up, whatever pieces it was     *)
(* read in, if the child prints text, and no more than a window of it or     *)
(* none that is a character of several bytes (the rolling window).           *)
PromptIsLookedUp ==
    gating /\ shown \in PromptEnds(Printed) /\ ValidText(stream)
           /\ (shown <= WindowMax \/ ~\E i \in 1 .. shown : stream[i] = Lead)
        => looked # <<>> /\ Last(looked).at = shown

(* A prompt is looked up once: between two lookups the child has printed     *)
(* another one, and no more refusals are on their way to it than lookups     *)
(* found a deny (the cut behind the match).                                  *)
PromptIsAnsweredOnce ==
    /\ \A i \in DOMAIN looked :
          LET from == IF i = 1 THEN 0 ELSE looked[i - 1].at
          IN \E e \in PromptEnds(Printed) :
                from < e /\ e <= looked[i].at
                /\ (i > 1 => Cardinality({f \in PromptEnds(Printed) : f <= e}) >= i)
    /\ Cardinality({i \in DOMAIN (typed \o channel) : (typed \o channel)[i] = Refusal})
          <= Cardinality({i \in DOMAIN looked : looked[i].found})

(* When the wrapper returns, all that the child printed is on the screen     *)
(* (the joins).  A reader that could not send a refusal is the exception.    *)
OutputIsComplete ==
    main = "returned" => shown = written \/ (looked # <<>> /\ Last(looked).found)

(* The wrapper returns when the child has exited and its input has ended     *)
(* (the senders of the channel): the stdin thread holds one of them.         *)
ReturnsWhenInputEnds == child = "exited" /\ stdin = "ended" ~> main = "returned"

(* The reader: every prompt is looked up, none twice, and nothing the child  *)
(* prints is lost on the way.                                                *)
PromptIsServed == TapTypeOK /\ PromptIsLookedUp /\ PromptIsAnsweredOnce /\ OutputIsComplete

=============================================================================

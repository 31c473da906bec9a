--------------------------- MODULE ConsoleOutput ---------------------------
(***************************************************************************)
(* Writing to the console: putc stores the character in a ring buffer and  *)
(* gives the device what it will take; when the ring is full the character *)
(* is queued as a request.  The device becomes ready and busy on its own,  *)
(* and its interrupt reads input but writes nothing.                       *)
(***************************************************************************)
EXTENDS Integers, Sequences

CONSTANTS
  Char,        \* the characters
  BufferSize,  \* MEM_BLOCK_SIZE, the size of the ring
  MaxWritten   \* characters the programs write before they end

ASSUME OutputAssumption ==
  /\ BufferSize \in Nat \ {0}
  /\ MaxWritten \in Nat

Slot == 0..(BufferSize - 1)
NoChar == "none"

VARIABLES
  written,     \* every character given to putc, in order
  sent,        \* every character given to the device, in order
  outputBuffer, outputHead, outputTail, outputNum,
  requests,    \* the list of write requests
  ready        \* characters the device takes before STATUS_READY_OUT drops

vars == <<written, sent, outputBuffer, outputHead, outputTail, outputNum,
          requests, ready>>

-----------------------------------------------------------------------------

(* A ring and its requests, as the functions below hand them on.           *)
Ring == [buf |-> outputBuffer, head |-> outputHead, tail |-> outputTail,
         num |-> outputNum, reqs |-> requests, sent |-> sent]

Enter(r, c) == [r EXCEPT !.buf[r.tail] = c, !.tail = (@ + 1) % BufferSize,
                         !.num = @ + 1]

(* resolveWriteRequest: the oldest request moves into the ring.            *)
resolveWriteRequest(r) ==
  IF r.reqs = << >> THEN r
  ELSE [Enter(r, Head(r.reqs)) EXCEPT !.reqs = Tail(r.reqs)]

SendAgain(r) ==  \* wrong: outputHead not advanced
  resolveWriteRequest([r EXCEPT !.sent = Append(@, r.buf[r.head]), !.num = @ - 1])
SendOne(r) ==
  resolveWriteRequest([r EXCEPT !.sent = Append(@, r.buf[r.head]),
                                !.head = (@ + 1) % BufferSize, !.num = @ - 1])

(* writeToConsole with a device that takes n characters: result and what   *)
(* the device still takes.                                                 *)
writeToConsole(start, n) ==
  LET f[k \in 0..n] == IF k = 0 THEN start
                       ELSE IF f[k - 1].num <= 0 THEN f[k - 1]
                       ELSE SendOne(f[k - 1])
      taken == Len(f[n].sent) - Len(start.sent)
  IN  [ring |-> f[n], left |-> n - taken]

Becomes(r) ==
  /\ outputBuffer' = r.buf /\ outputHead' = r.head /\ outputTail' = r.tail
  /\ outputNum' = r.num /\ requests' = r.reqs /\ sent' = r.sent

(* writeRequest.                                                           *)
NeverFull(n) == FALSE  \* wrong: fullness not tested
FullEarly(n) == n >= BufferSize - 1  \* wrong: one slot early
outputFull(n) == n >= BufferSize
Putc(c) ==
  /\ Len(written) < MaxWritten
  /\ written' = Append(written, c)
  /\ IF outputFull(outputNum)
       THEN /\ Becomes([Ring EXCEPT !.reqs = Append(@, c)])
            /\ UNCHANGED ready
       ELSE LET w == writeToConsole(Enter(Ring, c), ready)
            IN  Becomes(w.ring) /\ ready' = w.left

(* External: the device becomes ready for n characters.                    *)
DeviceReady(n) ==
  /\ ready = 0
  /\ ready' = n
  /\ UNCHANGED <<written, sent, outputBuffer, outputHead, outputTail, outputNum,
                 requests>>

(* The console's interrupt: `//ConsoleHandler::writeToConsole()' is left   *)
(* out of the handler, which reads input only.                             *)
consoleHandler == ready > 0 /\ UNCHANGED vars

-----------------------------------------------------------------------------

Init ==
  /\ written = << >> /\ sent = << >>
  /\ outputBuffer = [i \in Slot |-> NoChar]
  /\ outputHead = 0 /\ outputTail = 0 /\ outputNum = 0
  /\ requests = << >>
  /\ ready = 0

Next ==
  \/ \E c \in Char : Putc(c)
  \/ \E n \in 1..BufferSize : DeviceReady(n)
  \/ consoleHandler

Spec == Init /\ [][Next]_vars

(* The programs write what they have to write, and the device, when it is  *)
(* busy, becomes ready again.                                              *)
FairSpec ==
  /\ Spec
  /\ WF_vars(\E c \in Char : Putc(c))
  /\ WF_vars(\E n \in 1..BufferSize : DeviceReady(n))

-----------------------------------------------------------------------------

(* The counters stay within the ring: no request is moved into a full one. *)
TypeOK ==
  /\ written \in Seq(Char) /\ sent \in Seq(Char)
  /\ outputBuffer \in [Slot -> Char \cup {NoChar}]
  /\ outputHead \in Slot /\ outputTail \in Slot
  /\ outputNum \in 0..BufferSize
  /\ requests \in Seq(Char)
  /\ ready \in 0..BufferSize

(* The device gets the characters in the order in which they were written, *)
(* through the ring and the requests, and none twice.                      *)
Contents == [k \in 1..outputNum |-> outputBuffer[(outputHead + k - 1) % BufferSize]]
OutputInOrder == written = sent \o Contents \o requests

(* A character waits as a request only while the ring is full, so a later  *)
(* one never overtakes it into the ring.  As a full ring also keeps putc   *)
(* from writing to the device, the requests are never resolved.            *)
RequestsOnlyWhenFull == requests # << >> => outputNum = BufferSize

(* Whatever is written is sent, provided that the device becomes ready     *)
(* again and again.                                                        *)
OutputIsSent == (outputNum > 0) ~> (outputNum = 0)

=============================================================================

----------------------------- MODULE StreamDemo -----------------------------
(***************************************************************************)
(* src/demo_stream.c and the host that feeds it, byte by byte.             *)
(*                                                                         *)
(* The program says RDY, takes the weights of demo/load_weights.py, says   *)
(* WOK, and then for ever looks for the preamble AA 55, takes an image,    *)
(* runs the accelerator and sends a line.  A step of the program is a call *)
(* of g1() with what is done to its byte, or what lies between two calls:  *)
(* UartLink shows that g1() takes the byte in RDR before the next one is   *)
(* complete.  While the program does something else nobody takes them, and *)
(* each byte overwrites the one before.  A line is sent in one step.       *)
(*                                                                         *)
(* The host is the harness of demo/takim_icd.json: it sends a frame when   *)
(* the last one has been answered or its time-out, far longer than a run,  *)
(* has passed.  Its robustness scenarios cut a frame short or make it too  *)
(* long (demo/harness_results, truncated_frame and oversized_frame).       *)
(***************************************************************************)
EXTENDS Integers, Sequences, SequencesExt

CONSTANTS
  IN_COUNT, N_WCONV, N_BCONV, N_WFC, N_BFC, FC_OUT,
  Infer(_, _),      \* logits of an image under weights, the accelerator
  File,             \* the bytes of the weight files
  Payloads,         \* images as the host sends them
  Strays,           \* what a frame that is too long ends in
  Bounded           \* the accelerator answers before the watchdog

ASSUME StreamAssumption ==
  /\ {IN_COUNT, N_WCONV, N_BCONV, N_WFC, N_BFC, FC_OUT} \subseteq Nat \ {0}
  /\ File \in Seq(0 .. 255) /\ Len(File) = N_WCONV + 4 * N_BCONV + N_WFC + 4 * N_BFC
  /\ Payloads \subseteq [1 .. IN_COUNT -> 0 .. 255] /\ Strays \subseteq 0 .. 255
  /\ Bounded \in BOOLEAN

VARIABLES
  rdr, rx_done,     \* the receiver of the UART
  pc, got,          \* where the program is, the bytes it has taken there
  weights, image,   \* what it wrote to the windows of the accelerator
  accel, logits,    \* the accelerator
  led, line,        \* the LEDs, the last line sent since the frame began
  queue,            \* bytes of the frame still to be sent
  frame,            \* the payload of the frame the host sends or has sent
  aligned,          \* the frame is well-formed and began during a search
  goods, stray      \* well-formed frames since the last bad one; AA among the
                    \* bytes after the preamble since the last aligned frame

progVars == <<pc, got, weights, image, led, line>>
accelVars == <<accel, logits>>
hostVars == <<queue, frame, aligned, goods, stray>>
vars == <<rdr, rx_done, progVars, accelVars, hostVars>>

AA == 170
P55 == 85

-----------------------------------------------------------------------------
(***************************************************************************)
(* The program.                                                            *)
(***************************************************************************)
\* g1(): the byte in RDR.
g1 == rx_done /\ rx_done' = FALSE /\ UNCHANGED rdr

\* g4(): four bytes, the least significant first; a word is kept as its bytes.
BugWords(bytes) == [k \in 1 .. Len(bytes) \div 4 |-> Reverse(SubSeq(bytes, 4*k - 3, 4*k))]
Words(bytes) == [k \in 1 .. Len(bytes) \div 4 |-> SubSeq(bytes, 4*k - 3, 4*k)]

NoWeights == [wconv |-> <<>>, bconv |-> <<>>, wfc |-> <<>>, bfc |-> <<>>]

Text(text) == [text |-> text]

Ready ==
  /\ pc = "boot"
  /\ pc' = "weights" /\ got' = <<>>
  /\ led' = 1 /\ line' = Text("RDY")
  /\ UNCHANGED <<rdr, rx_done, weights, image, accelVars>>

\* The four loops over the weight windows; the last byte is followed by WOK.
LoadWeights ==
  /\ pc = "weights"
  /\ g1
  /\ LET bytes == Append(got, rdr)
         b == N_WCONV + 4 * N_BCONV
     IN IF Len(bytes) < Len(File)
          THEN got' = bytes /\ UNCHANGED <<pc, weights, led, line>>
          ELSE /\ weights' = [wconv |-> SubSeq(bytes, 1, N_WCONV),
                              bconv |-> Words(SubSeq(bytes, N_WCONV + 1, b)),
                              wfc |-> SubSeq(bytes, b + 1, b + N_WFC),
                              bfc |-> Words(SubSeq(bytes, b + N_WFC + 1, Len(bytes)))]
               /\ pc' = "AA" /\ got' = <<>>
               /\ led' = 128 /\ line' = Text("WOK")
  /\ UNCHANGED <<image, accelVars>>

\* waitpre(): the byte after an AA is thrown away unless it is 55.
BugSearch(state, byte) ==              \* takes a 55 alone
  IF byte = P55 THEN "image" ELSE IF byte = AA THEN "55" ELSE "AA"
Search(state, byte) ==
  IF state = "AA" THEN IF byte = AA THEN "55" ELSE "AA"
  ELSE IF byte = P55 THEN "image" ELSE "AA"

waitpre ==
  /\ pc \in {"AA", "55"}
  /\ g1
  /\ pc' = Search(pc, rdr)
  /\ led' = IF pc' = "image" THEN 64 ELSE led
  /\ UNCHANGED <<got, weights, image, line, accelVars>>

\* (x ^ 0x80) >> 1: a signed byte as an unsigned one of seven bits.
BugPixel(x) == (x + 128) % 256
Pixel(x) == ((x + 128) % 256) \div 2

BugLastPixel == Len(got) = IN_COUNT
LastPixel == Len(got) + 1 = IN_COUNT

\* The image; START follows its last byte.  It is ignored while a run goes on.
TakeImage ==
  /\ pc = "image"
  /\ g1
  /\ IF ~LastPixel
       THEN got' = Append(got, Pixel(rdr)) /\ UNCHANGED <<pc, image, accel>>
       ELSE /\ image' = Append(got, Pixel(rdr))
            /\ got' = <<>> /\ pc' = "wait"
            /\ accel' = "busy"
  /\ UNCHANGED <<weights, led, line, logits>>

\* The first of the greatest.
Best(lo) ==
  CHOOSE k \in 1 .. FC_OUT :
    \A j \in 1 .. FC_OUT : lo[k] > lo[j] \/ (lo[k] = lo[j] /\ k <= j)

\* 1 << k, of which led() keeps eight bits.
OneHot(k) == IF k \in 0 .. 7 THEN <<1, 2, 4, 8, 16, 32, 64, 128>>[k + 1] ELSE 0

\* STATUS.DONE is seen: read the logits.
Done ==
  /\ pc = "wait" /\ accel = "done"
  /\ pc' = "result" /\ led' = OneHot(Best(logits) - 1)
  /\ UNCHANGED <<rdr, rx_done, got, weights, image, line, accelVars>>

\* wd is counted down to zero.
GiveUp ==
  /\ pc = "wait" /\ accel = "busy" /\ ~Bounded
  /\ pc' = "error" /\ led' = AA
  /\ UNCHANGED <<rdr, rx_done, got, weights, image, line, accelVars>>

\* The line, and back to the search.
Report ==
  /\ pc \in {"result", "error"}
  /\ line' = IF pc = "error" THEN Text("ERR")
             ELSE [text |-> "RESULT", label |-> Best(logits), scores |-> logits]
  /\ led' = 128 /\ pc' = "AA"
  /\ UNCHANGED <<rdr, rx_done, got, weights, image, accelVars>>

Program ==
  /\ Ready \/ LoadWeights \/ waitpre \/ TakeImage \/ Done \/ GiveUp \/ Report
  /\ UNCHANGED hostVars

\* The accelerator ends its run.
Accelerator ==
  /\ accel = "busy"
  /\ accel' = "done" /\ logits' = Infer(weights, image)
  /\ UNCHANGED <<rdr, rx_done, progVars, hostVars>>

-----------------------------------------------------------------------------
(***************************************************************************)
(* The host.                                                               *)
(***************************************************************************)
Listening == pc \in {"weights", "AA", "55", "image"}
AtRest == queue = <<>> /\ Listening /\ ~rx_done

SendWeights ==
  /\ pc = "weights" /\ AtRest /\ got = <<>>
  /\ queue' = File
  /\ UNCHANGED <<rdr, rx_done, progVars, accelVars, frame, aligned, goods, stray>>

\* What follows the preamble.  The host forgets the line it had.
NewFrame(bytes, payload, good) ==
  LET inStep == good /\ pc = "AA" IN
  /\ AtRest /\ pc # "weights"
  /\ queue' = <<AA, P55>> \o bytes
  /\ frame' = payload
  /\ aligned' = inStep
  /\ goods' = IF ~good THEN 0 ELSE IF goods = 0 THEN 1 ELSE goods
  /\ stray' = (~inStep /\ (stray \/ AA \in ToSet(bytes)))
  /\ line' = Text("none")
  /\ UNCHANGED <<rdr, rx_done, pc, got, weights, image, led, accelVars>>

SendFrame == \E payload \in Payloads : NewFrame(payload, payload, TRUE)
SendTruncated ==
  \E payload \in Payloads, k \in 0 .. IN_COUNT - 1 :
    NewFrame(SubSeq(payload, 1, k), payload, FALSE)
SendOversized ==
  \E payload \in Payloads, x \in Strays : NewFrame(Append(payload, x), payload, FALSE)

\* A byte is complete.  A program in g1() has taken the one before; and a run
\* given up is over before another image is in.
Arrive ==
  /\ queue # <<>>
  /\ Listening => ~rx_done
  /\ accel = "busy" /\ pc = "image" => Len(got) + 1 < IN_COUNT
  /\ rdr' = Head(queue) /\ rx_done' = TRUE
  /\ queue' = Tail(queue)
  /\ UNCHANGED <<progVars, accelVars, frame, aligned, goods, stray>>

Host == SendWeights \/ SendFrame \/ SendTruncated \/ SendOversized \/ Arrive

-----------------------------------------------------------------------------
Init ==
  /\ rdr = 0 /\ rx_done = FALSE
  /\ pc = "boot" /\ got = <<>>
  /\ weights = NoWeights /\ image = <<>>
  /\ accel = "idle" /\ logits = <<>>
  /\ led = 0 /\ line = Text("none")
  /\ queue = <<>> /\ frame = <<>> /\ aligned = FALSE
  /\ goods = 1 /\ stray = FALSE

Next == Program \/ Accelerator \/ Host

\* Program and accelerator are clocked; a byte begun is sent.
Spec ==
  Init /\ [][Next]_vars
    /\ WF_vars(Program) /\ WF_vars(Accelerator) /\ WF_vars(Arrive)

-----------------------------------------------------------------------------
(***************************************************************************)
(* Properties.                                                             *)
(***************************************************************************)
\* Pixels have seven bits whatever byte is sent, an image is never overfull,
\* and the weights are the bytes of the files, none lost.
TypeOK ==
  /\ rdr \in 0 .. 255 /\ rx_done \in BOOLEAN
  /\ pc \in {"boot", "weights", "AA", "55", "image", "wait", "result", "error"}
  /\ pc = "image" => Len(got) < IN_COUNT /\ \A k \in 1 .. Len(got) : got[k] \in 0 .. 127
  /\ pc = "weights" => got = SubSeq(File, 1, Len(got))
  /\ led \in 0 .. 255 /\ accel \in {"idle", "busy", "done"}
  /\ queue \in Seq(0 .. 255)

\* What the files mean: bytes for the weights, words for the biases.
Meant(k, n) == SubSeq(File, k + 1, k + n)
Network ==
  LET c == N_WCONV  b == c + 4 * N_BCONV  f == b + N_WFC
      Bias(from, n) == [k \in 1 .. n |-> [j \in 1 .. 4 |-> File[from + 4 * (k - 1) + j]]]
  IN [wconv |-> Meant(0, c), bconv |-> Bias(c, N_BCONV),
      wfc |-> Meant(b, N_WFC), bfc |-> Bias(f, N_BFC)]

\* The pixel of a signed byte x is (x + 128) / 2.
PictureOf(payload) ==
  [k \in 1 .. IN_COUNT |->
     LET x == IF payload[k] < 128 THEN payload[k] ELSE payload[k] - 256
     IN (x + 128) \div 2]
Picture == PictureOf(frame)

\* The accelerator gives a number for each class.
ASSUME ScoresAssumption ==
  \A payload \in Payloads : Infer(Network, PictureOf(payload)) \in [1 .. FC_OUT -> Int]

\* The line that follows a frame sent to a searching program is the answer to
\* this frame, under the weights of the files, and its label the first of the
\* greatest scores; or ERR if the accelerator is too slow.
AnswerIsOfFrame ==
  aligned /\ line.text # "none" =>
    LET scores == Infer(Network, Picture) IN
    \/ ~Bounded /\ line.text = "ERR"
    \/ /\ line.text = "RESULT" /\ line.scores = scores
       /\ \A k \in 1 .. FC_OUT :
            /\ scores[k] <= scores[line.label]
            /\ k < line.label => scores[k] < scores[line.label]

\* A frame that is too short or too long costs no more than the next one: when
\* that has been sent the program searches again and is in step, unless a byte
\* AA stood where it may have been taken for a preamble.
InStepAgain ==
  AtRest /\ pc # "weights" /\ goods > 0 /\ ~stray => pc = "AA"

\* Every frame sent to a searching program gets a line.
Answered == aligned ~> line.text # "none"

=============================================================================

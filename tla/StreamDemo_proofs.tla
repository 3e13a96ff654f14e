------------------------- MODULE StreamDemo_proofs --------------------------
(***************************************************************************)
(* Proofs about StreamDemo, for every size of weights and images, every    *)
(* file, payload and accelerator, and every way the host cuts its frames.  *)
(***************************************************************************)
EXTENDS StreamDemo, FiniteSetTheorems, SequenceTheorems, TLAPS

Byte == 0 .. 255

\* What is left of s after n bytes.
Rest(s, n) == SubSeq(s, n + 1, Len(s))

\* n bytes of s have been taken or lost, and the others are still to come: in
\* RDR, or at the host.
Pending(s, n) ==
  \/ ~rx_done /\ n \in 0 .. Len(s) /\ queue = Rest(s, n)
  \/ /\ rx_done /\ n \in 0 .. Len(s) - 1
     /\ rdr = s[n + 1] /\ queue = Rest(s, n + 1)

-----------------------------------------------------------------------------
(***************************************************************************)
(* Bytes under way.                                                        *)
(***************************************************************************)
\* The first of what is left, and what is left after it.
LEMMA RestMoves ==
  ASSUME NEW s \in Seq(Byte), NEW n \in 0 .. Len(s) - 1
  PROVE  /\ Rest(s, n) # <<>>
         /\ Head(Rest(s, n)) = s[n + 1]
         /\ Tail(Rest(s, n)) = Rest(s, n + 1)
<1>1. PICK len \in Nat : len = Len(s)
  OBVIOUS
<1>2. n + 1 \in 1 .. Len(s) /\ Len(s) \in (n + 1) .. Len(s)
  BY <1>1
<1>3. Head(Rest(s, n)) = s[n + 1] /\ Tail(Rest(s, n)) = SubSeq(s, n + 2, Len(s))
  BY <1>2, HeadTailOfSubSeq DEF Rest
<1>4. Len(Rest(s, n)) = Len(s) - n
  <2>1. \A i \in (n + 1) .. Len(s) : s[i] \in Byte
    BY <1>1
  <2>2. n + 1 \in Int /\ Len(s) \in Int
    BY <1>1
  <2>3. Len(SubSeq(s, n + 1, Len(s))) = IF n + 1 <= Len(s) THEN Len(s) - (n + 1) + 1 ELSE 0
    BY <2>1, <2>2, SubSeqProperties
  <2> QED BY <1>1, <2>3 DEF Rest
<1>5. Rest(s, n) # <<>>
  BY <1>1, <1>4
<1>6. QED BY <1>1, <1>3, <1>5 DEF Rest

\* Nothing is left of s after all of it, and all after nothing.
LEMMA RestEnds ==
  ASSUME NEW s \in Seq(Byte)
  PROVE  Rest(s, Len(s)) = <<>> /\ Rest(s, 0) = s
BY SubSeqEmpty, SubSeqFull DEF Rest

\* Nothing is left only at the end.
LEMMA RestEmpty ==
  ASSUME NEW s \in Seq(Byte), NEW n \in 0 .. Len(s), Rest(s, n) = <<>>
  PROVE  n = Len(s)
<1>1. PICK len \in Nat : len = Len(s)
  OBVIOUS
<1>2. n \notin 0 .. Len(s) - 1
  BY RestMoves
<1>3. QED BY <1>1, <1>2

\* The byte the program takes is the next one.
LEMMA ByteTaken ==
  ASSUME NEW s \in Seq(Byte), NEW n \in Nat, Pending(s, n), g1, UNCHANGED queue
  PROVE  /\ n \in 0 .. Len(s) - 1 /\ rdr = s[n + 1]
         /\ Pending(s, n + 1)'
<1>1. PICK len \in Nat : len = Len(s)
  OBVIOUS
<1>2. rx_done /\ ~rx_done'
  BY DEF g1
<1>3. n \in 0 .. Len(s) - 1 /\ rdr = s[n + 1] /\ queue = Rest(s, n + 1)
  BY <1>2 DEF Pending
<1>4. n + 1 \in 0 .. Len(s)
  BY <1>1, <1>3
<1>5. QED BY <1>2, <1>3, <1>4 DEF Pending

\* A byte that arrives does not change what is to come, or costs the one that
\* was in RDR.
LEMMA ByteArrives ==
  ASSUME NEW s \in Seq(Byte), NEW n \in Nat, Pending(s, n), Arrive
  PROVE  /\ ~rx_done => Pending(s, n)'
         /\ rx_done => Pending(s, n + 1)'
         /\ n \in 0 .. Len(s) - 1
<1>1. PICK len \in Nat : len = Len(s)
  OBVIOUS
<1>2. PICK m \in 0 .. Len(s) : queue = Rest(s, m) /\ m = IF rx_done THEN n + 1 ELSE n
  BY <1>1 DEF Pending
<1>3. m # Len(s)
  BY <1>2, RestEnds DEF Arrive
<1>4. m \in 0 .. Len(s) - 1
  BY <1>1, <1>2, <1>3
<1>5. rx_done' /\ rdr' = s[m + 1] /\ queue' = Rest(s, m + 1)
  BY <1>2, <1>4, RestMoves DEF Arrive
<1>6. Pending(s, m)'
  BY <1>4, <1>5 DEF Pending
<1>7. QED BY <1>1, <1>2, <1>4, <1>6

\* At rest all has come.
LEMMA AllCome ==
  ASSUME NEW s \in Seq(Byte), NEW n \in Nat, Pending(s, n), AtRest
  PROVE  n = Len(s)
BY RestEmpty DEF Pending, AtRest

\* A frame is its preamble and what follows.
LEMMA FrameBytes ==
  ASSUME NEW bytes \in Seq(Byte)
  PROVE  /\ <<AA, P55>> \o bytes \in Seq(Byte)
         /\ Len(<<AA, P55>> \o bytes) = Len(bytes) + 2
         /\ (<<AA, P55>> \o bytes)[1] = AA
         /\ (<<AA, P55>> \o bytes)[2] = P55
         /\ \A j \in 1 .. Len(bytes) : (<<AA, P55>> \o bytes)[j + 2] = bytes[j]
<1>1. PICK len \in Nat : len = Len(bytes)
  OBVIOUS
<1>2. <<AA, P55>> \in Seq(Byte) /\ Len(<<AA, P55>>) = 2
  BY DEF AA, P55, Byte
<1>3. /\ <<AA, P55>> \o bytes \in Seq(Byte)
      /\ Len(<<AA, P55>> \o bytes) = 2 + Len(bytes)
      /\ \A j \in 1 .. 2 + Len(bytes) : (<<AA, P55>> \o bytes)[j] =
           IF j <= 2 THEN <<AA, P55>>[j] ELSE bytes[j - 2]
  BY <1>2, ConcatProperties
<1>4. 1 \in 1 .. 2 + Len(bytes) /\ 2 \in 1 .. 2 + Len(bytes)
  BY <1>1
<1>5. ASSUME NEW j \in 1 .. Len(bytes)
      PROVE  (<<AA, P55>> \o bytes)[j + 2] = bytes[j]
  <2>1. j + 2 \in 1 .. 2 + Len(bytes) /\ ~(j + 2 <= 2) /\ j + 2 - 2 = j
    BY <1>1
  <2> QED BY <1>3, <2>1
<1>6. QED BY <1>1, <1>3, <1>4, <1>5

-----------------------------------------------------------------------------
(***************************************************************************)
(* What the bytes mean.                                                    *)
(***************************************************************************)
\* g1() and the shift give the pixel of the signed byte.
LEMMA PixelIs ==
  ASSUME NEW x \in Byte
  PROVE  /\ Pixel(x) = ((IF x < 128 THEN x ELSE x - 256) + 128) \div 2
         /\ Pixel(x) \in 0 .. 127
<1>1. CASE x < 128
  <2>1. x + 128 \in 0 .. 255
    BY <1>1 DEF Byte
  <2>2. (x + 128) % 256 = x + 128
    BY <2>1
  <2>3. (x + 128) \div 2 \in 0 .. 127
    BY <2>1
  <2> QED BY <1>1, <2>2, <2>3 DEF Pixel
<1>2. CASE ~(x < 128)
  <2>1. x - 128 \in 0 .. 127
    BY <1>2 DEF Byte
  <2>2. (x + 128) % 256 = x - 128 /\ (x - 256) + 128 = x - 128
    BY <2>1 DEF Byte
  <2>3. (x - 128) \div 2 \in 0 .. 127
    BY <2>1
  <2> QED BY <1>2, <2>2, <2>3 DEF Pixel
<1>3. QED BY <1>1, <1>2

\* The words in a stretch of the file are what the file means by them.
LEMMA WordsOfFile ==
  ASSUME NEW from \in Nat, NEW n \in Nat, from + 4 * n <= Len(File)
  PROVE  Words(SubSeq(File, from + 1, from + 4 * n))
           = [k \in 1 .. n |-> [j \in 1 .. 4 |-> File[from + 4 * (k - 1) + j]]]
<1> DEFINE part == SubSeq(File, from + 1, from + 4 * n)
<1>1. File \in Seq(Byte) /\ Len(File) \in Nat
  BY StreamAssumption DEF Byte
<1>2. /\ part \in Seq(Byte) /\ Len(part) = 4 * n
      /\ \A i \in 1 .. 4 * n : part[i] = File[from + i]
  <2>1. \A i \in (from + 1) .. (from + 4 * n) : File[i] \in Byte
    BY <1>1
  <2>2. from + 1 \in Int /\ from + 4 * n \in Int
    OBVIOUS
  <2>3. /\ part \in Seq(Byte)
        /\ Len(part) = IF from + 1 <= from + 4 * n
                         THEN from + 4 * n - (from + 1) + 1 ELSE 0
        /\ \A i \in 1 .. from + 4 * n - (from + 1) + 1 :
             part[i] = File[from + 1 + i - 1]
    BY <2>1, <2>2, SubSeqProperties
  <2>4. Len(part) = 4 * n
    BY <2>3
  <2>5. ASSUME NEW i \in 1 .. 4 * n PROVE part[i] = File[from + i]
    <3>1. i \in 1 .. from + 4 * n - (from + 1) + 1 /\ from + 1 + i - 1 = from + i
      OBVIOUS
    <3> QED BY <2>3, <3>1
  <2> QED BY <2>3, <2>4, <2>5
<1> HIDE DEF part
<1>3. Len(part) \div 4 = n
  BY <1>2
<1>4. ASSUME NEW k \in 1 .. n
      PROVE  SubSeq(part, 4 * k - 3, 4 * k)
               = [j \in 1 .. 4 |-> File[from + 4 * (k - 1) + j]]
  <2>1. \A i \in (4 * k - 3) .. 4 * k : part[i] \in Byte
    BY <1>2
  <2>2. 4 * k - 3 \in Int /\ 4 * k \in Int /\ 4 * k - 3 <= 4 * k
        /\ 4 * k - (4 * k - 3) + 1 = 4
    OBVIOUS
  <2>3. /\ SubSeq(part, 4 * k - 3, 4 * k) \in Seq(Byte)
        /\ Len(SubSeq(part, 4 * k - 3, 4 * k)) = 4
        /\ \A j \in 1 .. 4 :
             SubSeq(part, 4 * k - 3, 4 * k)[j] = part[4 * k - 3 + j - 1]
    BY <2>1, <2>2, SubSeqProperties
  <2>4. ASSUME NEW j \in 1 .. 4
        PROVE  SubSeq(part, 4 * k - 3, 4 * k)[j] = File[from + 4 * (k - 1) + j]
    <3>1. 4 * k - 3 + j - 1 \in 1 .. 4 * n
      OBVIOUS
    <3>2. from + (4 * k - 3 + j - 1) = from + 4 * (k - 1) + j
      OBVIOUS
    <3> QED BY <1>2, <2>3, <3>1, <3>2
  <2>5. SubSeq(part, 4 * k - 3, 4 * k) \in [1 .. 4 -> Byte]
    BY <2>3, LenProperties
  <2> QED BY <2>4, <2>5
<1>5. QED BY <1>3, <1>4 DEF Words, part

\* The program's four loops load the network of the files.
LEMMA NetworkLoaded ==
  LET b == N_WCONV + 4 * N_BCONV IN
  Network = [wconv |-> SubSeq(File, 1, N_WCONV),
             bconv |-> Words(SubSeq(File, N_WCONV + 1, b)),
             wfc |-> SubSeq(File, b + 1, b + N_WFC),
             bfc |-> Words(SubSeq(File, b + N_WFC + 1, Len(File)))]
<1>1. N_WCONV \in Nat /\ N_BCONV \in Nat /\ N_WFC \in Nat /\ N_BFC \in Nat
  BY StreamAssumption
<1>2. Len(File) = N_WCONV + 4 * N_BCONV + N_WFC + 4 * N_BFC
  BY StreamAssumption
<1>3. Words(SubSeq(File, N_WCONV + 1, N_WCONV + 4 * N_BCONV))
        = [k \in 1 .. N_BCONV |-> [j \in 1 .. 4 |-> File[N_WCONV + 4 * (k - 1) + j]]]
  <2>1. N_WCONV + 4 * N_BCONV <= Len(File)
    BY <1>1, <1>2
  <2> QED BY <1>1, <2>1, WordsOfFile
<1>4. PICK f \in Nat : f = N_WCONV + 4 * N_BCONV + N_WFC
  BY <1>1
<1>5. f + 4 * N_BFC = Len(File)
  BY <1>2, <1>4
<1>6. Words(SubSeq(File, f + 1, Len(File)))
        = [k \in 1 .. N_BFC |-> [j \in 1 .. 4 |-> File[f + 4 * (k - 1) + j]]]
  <2>1. f + 4 * N_BFC <= Len(File)
    BY <1>1, <1>5
  <2>2. Words(SubSeq(File, f + 1, f + 4 * N_BFC))
          = [k \in 1 .. N_BFC |-> [j \in 1 .. 4 |-> File[f + 4 * (k - 1) + j]]]
    BY <1>1, <2>1, WordsOfFile
  <2> QED BY <1>5, <2>2
<1>7. 0 + 1 = 1 /\ 0 + N_WCONV = N_WCONV
  BY <1>1
<1>8. QED BY <1>3, <1>4, <1>6, <1>7 DEF Network, Meant

\* A set of numbers that is not empty has a least one.
LEMMA LeastNatural ==
  ASSUME NEW T, T \subseteq Nat, T # {}
  PROVE  \E x \in T : \A y \in T : x <= y
<1> DEFINE U == {0 .. n : n \in T}
           R == StrictSubsetOrdering(Nat)
<1>1. IsWellFoundedOn(R, FiniteSubsetsOf(Nat))
  BY FS_StrictSubsetOrderingWellFounded
<1>2. U \subseteq FiniteSubsetsOf(Nat) /\ U # {}
  <2>1. ASSUME NEW n \in T
        PROVE  0 .. n \in FiniteSubsetsOf(Nat)
    BY FS_Interval DEF FiniteSubsetsOf
  <2> QED BY <2>1
<1> HIDE DEF U, R
<1>3. PICK u \in U : \A v \in U : ~ (<<v, u>> \in R)
  BY <1>1, <1>2, WFMin, Zenon
<1>4. PICK x \in T : u = 0 .. x
  BY DEF U
<1>5. ASSUME NEW y \in T
      PROVE  x <= y
  <2>1. 0 .. y \in U
    BY DEF U
  <2>2. ~ (<<0 .. y, 0 .. x>> \in R)
    BY <1>3, <1>4, <2>1
  <2>3. ~ (0 .. y \subseteq 0 .. x /\ 0 .. y # 0 .. x)
    BY <2>2 DEF R, StrictSubsetOrdering
  <2> QED BY <2>3
<1>6. QED BY <1>5

\* k is the first of the greatest among the first n scores.
FirstGreatest(lo, n, k) ==
  /\ k \in 1 .. n
  /\ \A j \in 1 .. n : lo[k] > lo[j] \/ (lo[k] = lo[j] /\ k <= j)

\* Any scores have a first of the greatest.
LEMMA GreatestExists ==
  ASSUME NEW lo \in [1 .. FC_OUT -> Int], NEW n \in 1 .. FC_OUT
  PROVE  \E k : FirstGreatest(lo, n, k)
<1>1. FC_OUT \in Nat
  BY StreamAssumption
<1> DEFINE T == {m \in 1 .. FC_OUT : ~ \E k : FirstGreatest(lo, m, k)}
<1>2. SUFFICES ASSUME T # {} PROVE FALSE
  OBVIOUS
<1>3. T \subseteq Nat
  BY <1>1
<1>4. PICK m \in T : \A y \in T : m <= y
  <2> HIDE DEF T
  <2> QED BY <1>2, <1>3, LeastNatural
<1>5. m \in 1 .. FC_OUT /\ ~ \E k : FirstGreatest(lo, m, k)
  OBVIOUS
<1>6. m # 1
  <2>1. ASSUME m = 1 PROVE FirstGreatest(lo, m, 1)
    BY <1>1, <2>1 DEF FirstGreatest
  <2> QED BY <1>5, <2>1
<1>7. m - 1 \in 1 .. FC_OUT /\ m - 1 \notin T
  BY <1>1, <1>4, <1>5, <1>6
<1>8. PICK k : FirstGreatest(lo, m - 1, k)
  BY <1>7
<1>9. k \in 1 .. FC_OUT /\ lo[k] \in Int /\ lo[m] \in Int
  BY <1>1, <1>5, <1>8 DEF FirstGreatest
<1>10. ASSUME NEW j \in 1 .. m PROVE j = m \/ j \in 1 .. m - 1
  BY <1>1, <1>5
<1>11. ASSUME NEW j \in 1 .. m PROVE lo[j] \in Int
  BY <1>1, <1>5
<1>12. CASE lo[m] > lo[k]
  <2>1. FirstGreatest(lo, m, m)
    BY <1>1, <1>5, <1>8, <1>9, <1>10, <1>11, <1>12 DEF FirstGreatest
  <2> QED BY <1>5, <2>1
<1>13. CASE ~(lo[m] > lo[k])
  <2>1. FirstGreatest(lo, m, k)
    BY <1>1, <1>5, <1>8, <1>9, <1>10, <1>11, <1>13 DEF FirstGreatest
  <2> QED BY <1>5, <2>1
<1>14. QED BY <1>12, <1>13

\* The program's label is the first of the greatest.
LEMMA BestIs ==
  ASSUME NEW lo \in [1 .. FC_OUT -> Int]
  PROVE  FirstGreatest(lo, FC_OUT, Best(lo))
<1>1. FC_OUT \in 1 .. FC_OUT
  BY StreamAssumption
<1>2. \E k : FirstGreatest(lo, FC_OUT, k)
  BY <1>1, GreatestExists
<1>3. QED BY <1>2 DEF FirstGreatest, Best

-----------------------------------------------------------------------------
(***************************************************************************)
(* The inductive invariant.                                                *)
(***************************************************************************)
Places == {"boot", "weights", "AA", "55", "image", "wait", "result", "error"}
Working == {"wait", "result", "error"}

Types ==
  /\ rdr \in Byte /\ rx_done \in BOOLEAN /\ queue \in Seq(Byte)
  /\ pc \in Places /\ accel \in {"idle", "busy", "done"} /\ led \in Byte
  /\ goods \in {0, 1} /\ stray \in BOOLEAN /\ aligned \in BOOLEAN

\* Of the files' bytes none has been lost.
LoadingWeights ==
  /\ pc = "boot" => ~rx_done /\ queue = <<>>
  /\ pc \in {"boot", "weights"} => ~aligned
  /\ pc = "weights" =>
       /\ Len(got) \in 0 .. Len(File) - 1 /\ got = SubSeq(File, 1, Len(got))
       /\ \/ got = <<>> /\ queue = <<>> /\ ~rx_done
          \/ Pending(File, Len(got))
  /\ pc \notin {"boot", "weights"} => weights = Network

\* The image is never overfull, and its last byte finds the accelerator free.
Taking ==
  /\ pc = "image" =>
       /\ got \in Seq(0 .. 127) /\ Len(got) < IN_COUNT
       /\ rx_done /\ Len(got) + 1 = IN_COUNT => accel # "busy"
  /\ pc \notin {"image", "weights"} => got = <<>>

\* The bytes taken of a frame that is answered.
Position(s) ==
  CASE pc = "AA" -> IF line.text = "none" THEN 0 ELSE Len(s)
    [] pc = "55" -> 1
    [] pc = "image" -> 2 + Len(got)
    [] OTHER -> Len(s)

\* The line answers the frame.
RightLine ==
  LET scores == Infer(Network, Picture) IN
  \/ ~Bounded /\ line.text = "ERR"
  \/ /\ line.text = "RESULT" /\ line.scores = scores
     /\ \A k \in 1 .. FC_OUT :
          /\ scores[k] <= scores[line.label]
          /\ k < line.label => scores[k] < scores[line.label]

\* A well-formed frame that began in step, wherever the program is with it.
InStep(s, n) ==
  /\ ~stray /\ goods = 1 /\ frame \in Payloads
  /\ s = <<AA, P55>> \o frame /\ n = Position(s)
  /\ pc # "AA" => line.text = "none"
  /\ pc = "image" => \A k \in 1 .. Len(got) : got[k] = Picture[k]
  /\ pc \in Working =>
       /\ image = Picture /\ accel # "idle"
       /\ accel = "done" => logits = Infer(Network, Picture)
  /\ pc = "result" => accel = "done"
  /\ pc = "error" => ~Bounded
  /\ pc = "AA" /\ line.text # "none" => RightLine

\* Any other frame, as long as no byte AA can be taken for a preamble.  After a
\* well-formed one an image begun has been filled when the frame is over.
OutOfStep(s, n) ==
  /\ \A j \in 3 .. Len(s) : s[j] # AA
  /\ pc = "55" => n = 1
  /\ pc \in Working => n >= 1
  /\ goods = 1 /\ pc = "AA" => n # 0
  /\ goods = 1 /\ pc = "55" => Len(s) >= IN_COUNT + 2
  /\ goods = 1 /\ pc = "image" => Len(s) - n >= IN_COUNT - Len(got)

Sent(s, n) ==
  /\ Len(s) >= 2 /\ s[1] = AA /\ s[2] = P55 /\ Pending(s, n)
  /\ aligned => InStep(s, n)
  /\ ~aligned /\ ~stray => OutOfStep(s, n)

\* The last frame sent, and how much of it has gone.
LastFrame ==
  pc \notin {"boot", "weights"} => \E s \in Seq(Byte), n \in Nat : Sent(s, n)

DemoInv == Types /\ LoadingWeights /\ Taking /\ LastFrame

-----------------------------------------------------------------------------
(***************************************************************************)
(* One step, part by part.                                                 *)
(***************************************************************************)
\* A payload is a sequence of bytes.
LEMMA PayloadBytes ==
  ASSUME NEW payload \in Payloads
  PROVE  payload \in Seq(Byte) /\ Len(payload) = IN_COUNT
<1>1. payload \in [1 .. IN_COUNT -> Byte] /\ IN_COUNT \in Nat
  BY StreamAssumption DEF Byte
<1>2. QED BY <1>1

\* Whatever the host sends is a preamble with bytes after it, and those of a
\* well-formed frame are the payload.
LEMMA FramesSent ==
  ASSUME SendFrame \/ SendTruncated \/ SendOversized
  PROVE  \E bytes \in Seq(Byte), payload \in Payloads, good \in BOOLEAN :
           NewFrame(bytes, payload, good) /\ (good => bytes = payload)
<1>1. CASE SendFrame
  BY <1>1, PayloadBytes DEF SendFrame
<1>2. CASE SendTruncated
  <2>1. PICK payload \in Payloads, k \in 0 .. IN_COUNT - 1 :
          NewFrame(SubSeq(payload, 1, k), payload, FALSE)
    BY <1>2 DEF SendTruncated
  <2>2. SubSeq(payload, 1, k) \in Seq(Byte)
    <3>1. IN_COUNT \in Nat /\ payload \in [1 .. IN_COUNT -> Byte]
      BY StreamAssumption DEF Byte
    <3>2. \A j \in 1 .. k : payload[j] \in Byte
      BY <3>1
    <3>3. 1 \in Int /\ k \in Int
      BY <3>1
    <3> QED BY <3>2, <3>3, SubSeqProperties
  <2> QED BY <2>1, <2>2
<1>3. CASE SendOversized
  <2>1. PICK payload \in Payloads, x \in Strays :
          NewFrame(Append(payload, x), payload, FALSE)
    BY <1>3 DEF SendOversized
  <2>2. payload \in Seq(Byte) /\ x \in Byte
    BY PayloadBytes, StreamAssumption DEF Byte
  <2>3. Append(payload, x) \in Seq(Byte)
    BY <2>2, AppendProperties
  <2> QED BY <2>1, <2>3
<1>4. QED BY <1>1, <1>2, <1>3

\* The step of the host in which a frame begins.
FrameBegins ==
  \E bytes \in Seq(Byte), payload \in Payloads, good \in BOOLEAN :
    NewFrame(bytes, payload, good) /\ (good => bytes = payload)

\* Every step is one of these.
LEMMA Steps ==
  ASSUME [Next]_vars
  PROVE  \/ Program \/ Accelerator \/ SendWeights \/ FrameBegins \/ Arrive
         \/ UNCHANGED vars
BY FramesSent DEF Next, Host, FrameBegins

\* The bytes of the files.
LEMMA FileBytes ==
  File \in Seq(Byte) /\ Len(File) \in Nat \ {0}
<1>1. File \in Seq(Byte)
  BY StreamAssumption DEF Byte
<1>2. Len(File) = N_WCONV + 4 * N_BCONV + N_WFC + 4 * N_BFC
  BY StreamAssumption
<1>3. /\ N_WCONV \in Nat /\ N_WCONV > 0 /\ N_BCONV \in Nat
      /\ N_WFC \in Nat /\ N_BFC \in Nat
  BY StreamAssumption
<1>4. QED BY <1>1, <1>2, <1>3

\* The LEDs have eight bits.
LEMMA LedsAreBits ==
  ASSUME NEW k
  PROVE  OneHot(k) \in Byte
<1>1. CASE k \in 0 .. 7
  <2>1. k = 0 \/ k = 1 \/ k = 2 \/ k = 3 \/ k = 4 \/ k = 5 \/ k = 6 \/ k = 7
    BY <1>1
  <2> QED BY <1>1, <2>1 DEF OneHot, Byte
<1>2. CASE k \notin 0 .. 7
  BY <1>2 DEF OneHot, Byte
<1>3. QED BY <1>1, <1>2

\* Types.
LEMMA TypesStep ==
  ASSUME DemoInv, [Next]_vars
  PROVE  Types'
<1> USE DEF DemoInv
<1>1. CASE Program
  <2>1. UNCHANGED hostVars
    BY <1>1 DEF Program
  <2>2. CASE Ready
    BY <2>1, <2>2 DEF Ready, Types, Byte, Places, hostVars, accelVars
  <2>3. CASE LoadWeights
    <3>1. /\ rx_done' = FALSE /\ UNCHANGED <<rdr, accelVars>>
          /\ (pc' = pc /\ led' = led) \/ (pc' = "AA" /\ led' = 128)
      BY <2>3, Zenon DEF LoadWeights, g1
    <3>2. CASE pc' = pc /\ led' = led
      BY <2>1, <3>1, <3>2 DEF Types, hostVars, accelVars
    <3>3. CASE pc' = "AA" /\ led' = 128
      <4>1. pc' \in Places
        BY <3>3 DEF Places
      <4>2. led' \in Byte
        BY <3>3 DEF Byte
      <4> QED BY <2>1, <3>1, <4>1, <4>2 DEF Types, hostVars, accelVars
    <3> QED BY <3>1, <3>2, <3>3
  <2>4. CASE waitpre
    <3>1. Search(pc, rdr) \in Places
      BY DEF Search, Places
    <3>2. pc' \in Places /\ rx_done' = FALSE /\ UNCHANGED <<rdr, accel>>
      BY <2>4, <3>1 DEF waitpre, g1, accelVars
    <3>3. led' \in Byte
      BY <2>4 DEF waitpre, Types, Byte
    <3> QED BY <2>1, <3>2, <3>3 DEF Types, hostVars
  <2>5. CASE TakeImage
    BY <2>1, <2>5 DEF TakeImage, g1, Types, Places, hostVars
  <2>6. CASE Done
    BY <2>1, <2>6, LedsAreBits DEF Done, Types, Places, hostVars, accelVars
  <2>7. CASE GiveUp
    BY <2>1, <2>7 DEF GiveUp, AA, Types, Byte, Places, hostVars, accelVars
  <2>8. CASE Report
    BY <2>1, <2>8 DEF Report, Types, Byte, Places, hostVars, accelVars
  <2> QED BY <1>1, <2>2, <2>3, <2>4, <2>5, <2>6, <2>7, <2>8 DEF Program
<1>2. CASE Accelerator
  BY <1>2 DEF Accelerator, Types, progVars, hostVars
<1>3. CASE SendWeights
  BY <1>3, FileBytes DEF SendWeights, Types, progVars, accelVars
<1>4. CASE FrameBegins
  <2>1. PICK bytes \in Seq(Byte), payload \in Payloads, good \in BOOLEAN :
          NewFrame(bytes, payload, good)
    BY <1>4 DEF FrameBegins
  <2>2. queue' \in Seq(Byte)
    BY <2>1, FrameBytes DEF NewFrame
  <2>3. goods' \in {0, 1} /\ stray' \in BOOLEAN /\ aligned' \in BOOLEAN
    BY <2>1 DEF NewFrame, Types
  <2> QED BY <2>1, <2>2, <2>3 DEF NewFrame, Types, accelVars
<1>5. CASE Arrive
  <2>1. rdr' \in Byte /\ queue' \in Seq(Byte)
    BY <1>5, HeadTailProperties DEF Arrive, Types
  <2> QED BY <1>5, <2>1 DEF Arrive, Types, progVars, accelVars
<1>6. CASE UNCHANGED vars
  BY <1>6 DEF vars, Types, progVars, accelVars, hostVars
<1>7. QED BY <1>1, <1>2, <1>3, <1>4, <1>5, <1>6, Steps

\* The next byte of the files.
LEMMA WeightTaken ==
  ASSUME DemoInv, LoadWeights, UNCHANGED hostVars
  PROVE  LoadingWeights'
<1>1. /\ pc = "weights" /\ g1 /\ UNCHANGED queue /\ ~aligned'
      /\ Len(got) \in 0 .. Len(File) - 1 /\ got = SubSeq(File, 1, Len(got))
      /\ Pending(File, Len(got))
  BY DEF LoadWeights, g1, DemoInv, LoadingWeights, hostVars
<1>2. PICK n : n = Len(got)
  OBVIOUS
<1>3. n \in 0 .. Len(File) - 1 /\ n \in Nat /\ got = SubSeq(File, 1, n)
  BY <1>1, <1>2, FileBytes
<1>4. rdr = File[n + 1] /\ Pending(File, n + 1)'
  BY <1>1, <1>2, <1>3, FileBytes, ByteTaken
<1>5. Append(got, rdr) = SubSeq(File, 1, n + 1)
  <2>1. 1 \in 1 .. Len(File) /\ n + 1 \in 1 .. Len(File)
    BY <1>3, FileBytes
  <2>2. SubSeq(File, 1, n + 1) = SubSeq(File, 1, n) \o <<File[n + 1]>>
    <3>1. PICK last : last = n + 1
      OBVIOUS
    <3>2. File \in Seq(Byte) /\ 1 \in 1 .. Len(File) /\ last \in 1 .. Len(File)
      BY <2>1, <3>1, FileBytes
    <3>3. SubSeq(File, 1, last) = SubSeq(File, 1, last - 1) \o <<File[last]>>
      BY <3>2, SubSeqRecursiveSecond
    <3>4. last - 1 = n
      BY <1>3, <3>1
    <3> QED BY <3>1, <3>3, <3>4
  <2>3. got \in Seq(Byte)
    <3>1. \A i \in 1 .. n : File[i] \in Byte
      BY <1>3, FileBytes
    <3>2. 1 \in Int /\ n \in Int
      BY <1>3
    <3> QED BY <1>3, <3>1, <3>2, SubSeqProperties
  <2>4. rdr \in Byte
    BY DEF DemoInv, Types
  <2>5. Append(got, rdr) = got \o <<rdr>>
    BY <2>3, <2>4, AppendIsConcat
  <2> QED BY <1>3, <1>4, <2>2, <2>5
<1>6. Len(Append(got, rdr)) = n + 1
  <2>1. \A i \in 1 .. n + 1 : File[i] \in Byte
    BY <1>3, FileBytes
  <2>2. 1 \in Int /\ n + 1 \in Int /\ 1 <= n + 1 /\ n + 1 - 1 + 1 = n + 1
    BY <1>3
  <2>3. Len(SubSeq(File, 1, n + 1)) = n + 1
    BY <2>1, <2>2, SubSeqProperties
  <2> QED BY <1>5, <2>3
<1>7. CASE n + 1 < Len(File)
  <2>1. pc' = "weights" /\ got' = Append(got, rdr)
    BY <1>1, <1>6, <1>7 DEF LoadWeights
  <2>2. n + 1 \in 0 .. Len(File) - 1
    BY <1>3, <1>7, FileBytes
  <2>3. Len(got') = n + 1 /\ got' = SubSeq(File, 1, n + 1)
    BY <1>5, <1>6, <2>1
  <2> QED BY <1>1, <1>4, <2>1, <2>2, <2>3 DEF LoadingWeights
<1>8. CASE ~(n + 1 < Len(File))
  <2>1. n + 1 = Len(File)
    BY <1>3, <1>8, FileBytes
  <2>2. Append(got, rdr) = File
    BY <1>5, <2>1, FileBytes, SubSeqFull
  <2>3. pc' = "AA" /\ weights' = Network
    <3>1. PICK bytes : bytes = Append(got, rdr)
      OBVIOUS
    <3>2. ~(Len(bytes) < Len(File)) /\ bytes = File
      BY <2>2, <3>1, FileBytes
    <3>3. PICK b : b = N_WCONV + 4 * N_BCONV
      OBVIOUS
    <3>4. /\ pc' = "AA"
          /\ weights' = [wconv |-> SubSeq(bytes, 1, N_WCONV),
                         bconv |-> Words(SubSeq(bytes, N_WCONV + 1, b)),
                         wfc |-> SubSeq(bytes, b + 1, b + N_WFC),
                         bfc |-> Words(SubSeq(bytes, b + N_WFC + 1, Len(bytes)))]
      BY <3>1, <3>2, <3>3 DEF LoadWeights
    <3> QED BY <3>2, <3>3, <3>4, NetworkLoaded
  <2> QED BY <2>3 DEF LoadingWeights
<1>9. QED BY <1>7, <1>8

\* Loading.
LEMMA LoadingStep ==
  ASSUME DemoInv, [Next]_vars
  PROVE  LoadingWeights'
<1> USE DEF DemoInv
<1>1. CASE Program
  <2>1. UNCHANGED hostVars
    BY <1>1 DEF Program
  <2>2. CASE Ready
    <3>1. pc' = "weights" /\ got' = <<>> /\ queue' = <<>> /\ ~rx_done' /\ ~aligned'
      BY <2>1, <2>2 DEF Ready, LoadingWeights, hostVars
    <3>2. Len(got') \in 0 .. Len(File) - 1 /\ got' = SubSeq(File, 1, Len(got'))
      BY <3>1, FileBytes, SubSeqEmpty
    <3> QED BY <3>1, <3>2 DEF LoadingWeights
  <2>3. CASE LoadWeights
    BY <2>1, <2>3, WeightTaken
  <2>4. CASE waitpre
    BY <2>4 DEF waitpre, Search, LoadingWeights
  <2>5. CASE TakeImage
    BY <2>5 DEF TakeImage, LoadingWeights
  <2>6. CASE Done
    BY <2>6 DEF Done, LoadingWeights
  <2>7. CASE GiveUp
    BY <2>7 DEF GiveUp, LoadingWeights
  <2>8. CASE Report
    BY <2>8 DEF Report, LoadingWeights
  <2> QED BY <1>1, <2>2, <2>3, <2>4, <2>5, <2>6, <2>7, <2>8 DEF Program
<1>2. CASE Accelerator
  BY <1>2 DEF Accelerator, LoadingWeights, Pending, progVars, hostVars
<1>3. CASE SendWeights
  <2>1. /\ pc' = "weights" /\ got' = <<>> /\ ~aligned' /\ ~rx_done'
        /\ queue' = Rest(File, 0) /\ pc = "weights"
    BY <1>3, FileBytes, RestEnds DEF SendWeights, AtRest, LoadingWeights, progVars
  <2>2. Len(got') = 0 /\ 0 \in 0 .. Len(File) - 1 /\ 0 \in 0 .. Len(File)
        /\ got' = SubSeq(File, 1, 0)
    BY <2>1, FileBytes, SubSeqEmpty
  <2>3. Pending(File, 0)'
    BY <2>1, <2>2 DEF Pending
  <2> QED BY <2>1, <2>2, <2>3 DEF LoadingWeights
<1>4. CASE FrameBegins
  <2>1. UNCHANGED <<pc, weights>> /\ pc \notin {"boot", "weights"}
    BY <1>4 DEF FrameBegins, NewFrame, AtRest, Listening
  <2> QED BY <2>1 DEF LoadingWeights
<1>5. CASE Arrive
  <2>1. UNCHANGED <<pc, got, weights, aligned>> /\ queue # <<>>
    BY <1>5 DEF Arrive, progVars
  <2>2. CASE pc = "weights"
    <3>1. ~rx_done /\ Pending(File, Len(got)) /\ Len(got) \in 0 .. Len(File) - 1
      BY <1>5, <2>1, <2>2 DEF Arrive, Listening, LoadingWeights
    <3>2. Pending(File, Len(got))'
      <4>1. PICK n : n = Len(got)
        OBVIOUS
      <4>2. n \in Nat /\ Pending(File, n)
        BY <3>1, <4>1, FileBytes
      <4>3. Pending(File, n)'
        BY <1>5, <3>1, <4>2, FileBytes, ByteArrives
      <4> QED BY <2>1, <4>1, <4>3
    <3> QED BY <2>1, <2>2, <3>2 DEF LoadingWeights
  <2>3. CASE pc # "weights"
    BY <2>1, <2>3 DEF LoadingWeights
  <2> QED BY <2>2, <2>3
<1>6. CASE UNCHANGED vars
  BY <1>6 DEF vars, LoadingWeights, Pending, progVars, accelVars, hostVars
<1>7. QED BY <1>1, <1>2, <1>3, <1>4, <1>5, <1>6, Steps

\* Taking an image.
LEMMA TakingStep ==
  ASSUME DemoInv, [Next]_vars
  PROVE  Taking'
<1> USE DEF DemoInv
<1>1. CASE Program
  <2>1. CASE Ready
    BY <2>1 DEF Ready, Taking
  <2>2. CASE LoadWeights
    <3>1. pc' = "weights" \/ (pc' = "AA" /\ got' = <<>>)
      BY <2>2 DEF LoadWeights
    <3> QED BY <3>1 DEF Taking
  <2>3. CASE waitpre
    <3>1. got' = <<>> /\ rx_done' = FALSE
      BY <2>3 DEF waitpre, g1, Taking
    <3>2. Len(got') = 0 /\ got' \in Seq(0 .. 127)
      BY <3>1
    <3> QED BY <3>1, <3>2, StreamAssumption DEF Taking
  <2>4. CASE TakeImage
    <3>1. pc = "image" /\ rx_done' = FALSE /\ got \in Seq(0 .. 127) /\ Len(got) < IN_COUNT
      BY <2>4 DEF TakeImage, g1, Taking
    <3>2. CASE LastPixel
      BY <2>4, <3>2 DEF TakeImage, Taking
    <3>3. CASE ~LastPixel
      <4>1. got' = Append(got, Pixel(rdr)) /\ pc' = "image"
        BY <2>4, <3>1, <3>3 DEF TakeImage
      <4>2. Pixel(rdr) \in 0 .. 127
        BY PixelIs DEF Types
      <4>3. got' \in Seq(0 .. 127) /\ Len(got') = Len(got) + 1
        BY <3>1, <4>1, <4>2, AppendProperties
      <4>4. Len(got') < IN_COUNT
        <5>1. PICK n \in Nat : n = Len(got)
          BY <3>1
        <5>2. n < IN_COUNT /\ n + 1 # IN_COUNT /\ IN_COUNT \in Nat
          BY <3>1, <3>3, <5>1, StreamAssumption DEF LastPixel
        <5> QED BY <4>3, <5>1, <5>2
      <4> QED BY <3>1, <4>1, <4>3, <4>4 DEF Taking
    <3> QED BY <3>2, <3>3
  <2>5. CASE Done
    BY <2>5 DEF Done, Taking
  <2>6. CASE GiveUp
    BY <2>6 DEF GiveUp, Taking
  <2>7. CASE Report
    BY <2>7 DEF Report, Taking
  <2> QED BY <1>1, <2>1, <2>2, <2>3, <2>4, <2>5, <2>6, <2>7 DEF Program
<1>2. CASE Accelerator
  BY <1>2 DEF Accelerator, Taking, progVars
<1>3. CASE SendWeights
  BY <1>3 DEF SendWeights, Taking, progVars
<1>4. CASE FrameBegins
  BY <1>4 DEF FrameBegins, NewFrame, AtRest, Taking, accelVars
<1>5. CASE Arrive
  <2>1. UNCHANGED <<pc, got, accel>>
    BY <1>5 DEF Arrive, progVars, accelVars
  <2>2. pc = "image" /\ Len(got) + 1 = IN_COUNT => accel # "busy"
    <3>1. accel = "busy" /\ pc = "image" => Len(got) + 1 < IN_COUNT
      BY <1>5 DEF Arrive
    <3>2. IN_COUNT \in Nat
      BY StreamAssumption
    <3> QED BY <3>1, <3>2
  <2> QED BY <2>1, <2>2 DEF Taking
<1>6. CASE UNCHANGED vars
  BY <1>6 DEF vars, Taking, progVars, accelVars
<1>7. QED BY <1>1, <1>2, <1>3, <1>4, <1>5, <1>6, Steps

-----------------------------------------------------------------------------
(***************************************************************************)
(* One step of the last frame.                                             *)
(***************************************************************************)
\* What no action but the host's changes.
LEMMA FrameKept ==
  ASSUME UNCHANGED hostVars
  PROVE  UNCHANGED <<queue, frame, aligned, goods, stray>> /\ Picture' = Picture
BY DEF hostVars, Picture, PictureOf

\* The weights are in and no frame has been sent.
LEMMA FrameAfterLoading ==
  ASSUME DemoInv, LoadWeights, UNCHANGED hostVars
  PROVE  LastFrame'
<1>1. CASE pc' \in {"boot", "weights"}
  BY <1>1 DEF LastFrame
<1>2. CASE pc' \notin {"boot", "weights"}
  <2> DEFINE s == <<AA, P55>>
  <2>1. s \in Seq(Byte) /\ Len(s) = 2 /\ s[1] = AA /\ s[2] = P55
    BY DEF AA, P55, Byte
  <2>2. ~aligned'
    BY DEF DemoInv, LoadingWeights, LoadWeights, hostVars
  <2>3. pc' = "AA" /\ rx_done' = FALSE
    BY <1>2 DEF LoadWeights, g1
  <2>4. queue' = <<>>
    <3>1. pc = "weights" /\ Pending(File, Len(got)) /\ Len(got) \in 0 .. Len(File) - 1
          /\ got = SubSeq(File, 1, Len(got)) /\ rx_done
      BY DEF LoadWeights, g1, DemoInv, LoadingWeights
    <3>2. PICK n : n = Len(got)
      OBVIOUS
    <3>3. n \in 0 .. Len(File) - 1 /\ queue = Rest(File, n + 1) /\ got = SubSeq(File, 1, n)
      BY <3>1, <3>2 DEF Pending
    <3>4. Len(Append(got, rdr)) = n + 1
      <4>1. \A i \in 1 .. n : File[i] \in Byte
        BY <3>3, FileBytes
      <4>2. 1 \in Int /\ n \in Int
        BY <3>3, FileBytes
      <4>3. got \in Seq(Byte)
        BY <3>3, <4>1, <4>2, SubSeqProperties
      <4>4. rdr \in Byte
        BY DEF DemoInv, Types
      <4> QED BY <3>2, <4>3, <4>4, AppendProperties
    <3>5. ~(n + 1 < Len(File))
      BY <1>2, <3>4 DEF LoadWeights
    <3>6. n + 1 = Len(File)
      BY <3>3, <3>5, FileBytes
    <3>7. queue = <<>>
      BY <3>3, <3>6, FileBytes, RestEnds
    <3> QED BY <3>7 DEF hostVars
  <2> HIDE DEF s
  <2>5. Pending(s, 2)'
    <3>1. Rest(s, 2) = <<>>
      BY <2>1, RestEnds
    <3>2. 2 \in 0 .. Len(s)
      BY <2>1
    <3> QED BY <2>3, <2>4, <3>1, <3>2 DEF Pending
  <2>6. OutOfStep(s, 2)'
    BY <2>1, <2>3 DEF OutOfStep, Working
  <2>7. Sent(s, 2)'
    BY <2>1, <2>2, <2>5, <2>6 DEF Sent
  <2> QED BY <2>1, <2>7 DEF LastFrame
<1>3. QED BY <1>1, <1>2

\* The search takes a byte.
LEMMA FrameSearched ==
  ASSUME DemoInv, waitpre, UNCHANGED hostVars,
         NEW s \in Seq(Byte), NEW n \in Nat, Sent(s, n)
  PROVE  Sent(s, n + 1)'
<1>1. /\ pc \in {"AA", "55"} /\ g1 /\ UNCHANGED <<got, line>>
      /\ pc' = Search(pc, rdr)
  BY DEF waitpre
<1>2. /\ UNCHANGED <<queue, frame, aligned, goods, stray>> /\ goods \in {0, 1}
      /\ got' = <<>>
  BY <1>1, FrameKept DEF DemoInv, Types, Taking
<1>3. Len(s) \in Nat /\ Len(s) >= 2 /\ s[1] = AA /\ s[2] = P55 /\ Pending(s, n)
  BY DEF Sent
<1>4. n \in 0 .. Len(s) - 1 /\ rdr = s[n + 1] /\ Pending(s, n + 1)'
  BY <1>1, <1>2, <1>3, ByteTaken
<1>5. AA # P55
  BY DEF AA, P55
<1>6. ASSUME aligned PROVE InStep(s, n + 1)'
  <2>1. InStep(s, n)
    BY <1>6 DEF Sent
  <2>2. CASE pc = "AA"
    <3>1. n = 0 /\ line.text = "none"
      BY <1>3, <1>4, <2>1, <2>2 DEF InStep, Position
    <3>2. pc' = "55"
      BY <1>1, <1>3, <1>4, <1>5, <2>2, <3>1 DEF Search
    <3> QED BY <1>1, <1>2, <2>1, <3>1, <3>2 DEF InStep, Position, Working
  <2>3. CASE pc = "55"
    <3>1. n = 1 /\ line.text = "none"
      BY <2>1, <2>3 DEF InStep, Position
    <3>2. pc' = "image" /\ Len(got') = 0
      BY <1>1, <1>2, <1>3, <1>4, <2>3, <3>1 DEF Search
    <3> QED BY <1>1, <1>2, <2>1, <3>1, <3>2 DEF InStep, Position, Working
  <2> QED BY <1>1, <2>2, <2>3
<1>7. ASSUME ~aligned, ~stray PROVE OutOfStep(s, n + 1)'
  <2>1. OutOfStep(s, n)
    BY <1>7 DEF Sent
  <2>2. CASE pc = "AA" /\ n = 0
    <3>1. pc' = "55" /\ goods' # 1 /\ n + 1 = 1
      BY <1>1, <1>2, <1>3, <1>4, <1>5, <2>1, <2>2 DEF Search, OutOfStep
    <3> QED BY <2>1, <3>1 DEF OutOfStep, Working
  <2>3. CASE pc = "AA" /\ n # 0
    <3>1. rdr # AA
      <4>1. CASE n = 1
        BY <1>3, <1>4, <1>5, <4>1
      <4>2. CASE n # 1
        <5>1. n + 1 \in 3 .. Len(s)
          BY <1>3, <1>4, <2>3, <4>2
        <5> QED BY <1>4, <2>1, <5>1 DEF OutOfStep
      <4> QED BY <4>1, <4>2
    <3>2. pc' = "AA" /\ n + 1 # 0
      BY <1>1, <2>3, <3>1 DEF Search
    <3> QED BY <2>1, <3>2 DEF OutOfStep, Working
  <2>4. CASE pc = "55"
    <3>1. n = 1
      BY <2>1, <2>4 DEF OutOfStep
    <3>2. pc' = "image" /\ Len(got') = 0
      BY <1>1, <1>2, <1>3, <1>4, <2>4, <3>1 DEF Search
    <3>3. goods' = 1 => Len(s) >= IN_COUNT + 2
      BY <1>2, <2>1, <2>4 DEF OutOfStep
    <3>4. goods' = 1 => Len(s) - (n + 1) >= IN_COUNT - Len(got')
      BY <1>3, <3>1, <3>2, <3>3, StreamAssumption
    <3> QED BY <2>1, <3>2, <3>4 DEF OutOfStep, Working
  <2> QED BY <1>1, <2>2, <2>3, <2>4
<1>8. QED BY <1>2, <1>3, <1>4, <1>6, <1>7 DEF Sent

\* The image takes a byte.
LEMMA FrameTaken ==
  ASSUME DemoInv, TakeImage, UNCHANGED hostVars,
         NEW s \in Seq(Byte), NEW n \in Nat, Sent(s, n)
  PROVE  Sent(s, n + 1)'
<1>1. /\ pc = "image" /\ g1 /\ UNCHANGED line
      /\ got \in Seq(0 .. 127) /\ Len(got) < IN_COUNT
  BY DEF TakeImage, DemoInv, Taking
<1>2. /\ UNCHANGED <<queue, frame, aligned, goods, stray>> /\ goods \in {0, 1}
      /\ Picture' = Picture
  BY FrameKept DEF DemoInv, Types
<1>3. Len(s) \in Nat /\ Len(s) >= 2 /\ s[1] = AA /\ s[2] = P55 /\ Pending(s, n)
  BY DEF Sent
<1>4. n \in 0 .. Len(s) - 1 /\ rdr = s[n + 1] /\ Pending(s, n + 1)'
  BY <1>1, <1>2, <1>3, ByteTaken
<1>5. PICK g \in Nat : g = Len(got)
  BY <1>1
<1>6. g < IN_COUNT /\ IN_COUNT \in Nat
  BY <1>1, <1>5, StreamAssumption
<1>7. PICK pixel \in 0 .. 127 : pixel = Pixel(rdr)
  BY PixelIs DEF DemoInv, Types
<1>8. PICK grown : grown = Append(got, pixel)
  OBVIOUS
<1>9. /\ grown \in Seq(0 .. 127) /\ Len(grown) = g + 1 /\ grown[g + 1] = pixel
      /\ \A k \in 1 .. g : grown[k] = got[k]
  BY <1>1, <1>5, <1>7, <1>8, AppendProperties
<1>10. \/ g + 1 # IN_COUNT /\ got' = grown /\ pc' = "image"
       \/ g + 1 = IN_COUNT /\ image' = grown /\ pc' = "wait" /\ accel' = "busy"
  BY <1>1, <1>5, <1>7, <1>8 DEF TakeImage, LastPixel
<1>11. ASSUME aligned PROVE InStep(s, n + 1)'
  <2>1. InStep(s, n)
    BY <1>11 DEF Sent
  <2>2. /\ frame \in Payloads /\ s = <<AA, P55>> \o frame /\ n = 2 + g
        /\ line.text = "none" /\ ~stray /\ goods = 1
        /\ \A k \in 1 .. g : got[k] = Picture[k]
    BY <1>1, <1>5, <2>1 DEF InStep, Position
  <2>3. frame \in Seq(Byte) /\ Len(frame) = IN_COUNT
    BY <2>2, PayloadBytes
  <2>4. Len(s) = IN_COUNT + 2 /\ \A j \in 1 .. IN_COUNT : s[j + 2] = frame[j]
    BY <2>2, <2>3, FrameBytes
  <2>5. pixel = Picture[g + 1]
    <3>1. g + 1 \in 1 .. IN_COUNT /\ n + 1 = (g + 1) + 2
      BY <1>5, <1>6, <2>2
    <3>2. rdr = frame[g + 1] /\ frame[g + 1] \in Byte
      BY <1>4, <2>3, <2>4, <3>1
    <3>3. Pixel(rdr) = ((IF frame[g + 1] < 128 THEN frame[g + 1]
                                              ELSE frame[g + 1] - 256) + 128) \div 2
      BY <3>2, PixelIs
    <3> QED BY <1>7, <3>1, <3>3 DEF Picture, PictureOf
  <2>6. \A k \in 1 .. g + 1 : grown[k] = Picture[k]
    <3>1. \A k \in 1 .. g + 1 : k = g + 1 \/ k \in 1 .. g
      OBVIOUS
    <3> QED BY <1>9, <2>2, <2>5, <3>1
  <2>7. CASE g + 1 # IN_COUNT /\ got' = grown /\ pc' = "image"
    <3>1. Len(got') = g + 1 /\ n + 1 = 2 + (g + 1)
      BY <1>9, <2>2, <2>7
    <3>2. \A k \in 1 .. Len(got') : got'[k] = Picture'[k]
      BY <1>2, <2>6, <2>7, <3>1
    <3> QED BY <1>1, <1>2, <2>2, <2>7, <3>1, <3>2 DEF InStep, Position, Working
  <2>8. CASE /\ g + 1 = IN_COUNT /\ image' = grown /\ pc' = "wait"
             /\ accel' = "busy"
    <3>1. n + 1 = Len(s)
      BY <1>6, <2>2, <2>4, <2>8
    <3>2. grown = Picture
      <4>1. Len(grown) = IN_COUNT
        BY <1>9, <2>8
      <4>2. grown \in [1 .. Len(grown) -> 0 .. 127]
        BY <1>9, LenProperties
      <4>3. grown \in [1 .. IN_COUNT -> 0 .. 127]
        BY <4>1, <4>2, Zenon
      <4>4. Picture = [k \in 1 .. IN_COUNT |-> Picture[k]]
        BY DEF Picture, PictureOf
      <4> QED BY <2>6, <2>8, <4>3, <4>4
    <3> QED BY <1>1, <1>2, <2>2, <2>8, <3>1, <3>2 DEF InStep, Position, Working
  <2> QED BY <1>10, <2>7, <2>8
<1>12. ASSUME ~aligned, ~stray PROVE OutOfStep(s, n + 1)'
  <2>1. OutOfStep(s, n)
    BY <1>12 DEF Sent
  <2>2. CASE g + 1 # IN_COUNT /\ got' = grown /\ pc' = "image"
    <3>1. Len(got') = g + 1
      BY <1>9, <2>2
    <3>2. goods' = 1 => Len(s) - n >= IN_COUNT - g
      BY <1>1, <1>2, <1>5, <2>1 DEF OutOfStep
    <3>3. goods' = 1 => Len(s) - (n + 1) >= IN_COUNT - Len(got')
      BY <1>3, <1>6, <3>1, <3>2
    <3> QED BY <2>1, <2>2, <3>3 DEF OutOfStep, Working
  <2>3. CASE g + 1 = IN_COUNT /\ pc' = "wait"
    BY <2>1, <2>3 DEF OutOfStep, Working
  <2> QED BY <1>10, <2>2, <2>3
<1>13. QED BY <1>2, <1>3, <1>4, <1>11, <1>12 DEF Sent

\* The run ends, or is given up, and the line is sent.
LEMMA FrameAnswered ==
  ASSUME DemoInv, Done \/ GiveUp \/ Report, UNCHANGED hostVars,
         NEW s \in Seq(Byte), NEW n \in Nat, Sent(s, n)
  PROVE  Sent(s, n)'
<1>1. /\ UNCHANGED <<queue, frame, aligned, goods, stray>> /\ goods \in {0, 1}
      /\ Picture' = Picture /\ UNCHANGED <<rdr, rx_done, image, accel, logits>>
  BY FrameKept DEF DemoInv, Types, Done, GiveUp, Report, accelVars
<1>2. Pending(s, n)'
  BY <1>1 DEF Sent, Pending
<1>3. pc \in Working
  BY DEF Done, GiveUp, Report, Working
<1>4. Len(s) \in Nat /\ Len(s) >= 2
  BY DEF Sent
<1>5. ASSUME aligned PROVE InStep(s, n)'
  <2>1. InStep(s, n)
    BY <1>5 DEF Sent
  <2>2. /\ frame \in Payloads /\ s = <<AA, P55>> \o frame /\ n = Len(s)
        /\ line.text = "none" /\ ~stray /\ goods = 1
        /\ image = Picture /\ accel # "idle"
        /\ accel = "done" => logits = Infer(Network, Picture)
        /\ pc = "result" => accel = "done"
        /\ pc = "error" => ~Bounded
    BY <1>3, <2>1 DEF InStep, Position, Working
  <2>3. CASE Done
    <3>1. pc' = "result" /\ accel' = "done" /\ line' = line
      BY <1>1, <2>3 DEF Done
    <3> QED BY <1>1, <2>2, <3>1 DEF InStep, Position, Working
  <2>4. CASE GiveUp
    <3>1. pc' = "error" /\ ~Bounded /\ line' = line
      BY <2>4 DEF GiveUp
    <3> QED BY <1>1, <2>2, <3>1 DEF InStep, Position, Working
  <2>5. CASE Report
    <3>1. pc' = "AA"
      BY <2>5 DEF Report
    <3>2. RightLine' /\ line'.text # "none"
      <4>1. CASE pc = "error"
        <5>1. line'.text = "ERR"
          BY <2>5, <4>1 DEF Report, Text
        <5> QED BY <2>2, <4>1, <5>1 DEF RightLine
      <4>2. CASE pc = "result"
        <5>1. PICK scores : scores = Infer(Network, Picture)
          OBVIOUS
        <5>2. scores \in [1 .. FC_OUT -> Int]
          BY <2>2, <5>1, ScoresAssumption DEF Picture
        <5>3. logits = scores
          BY <2>2, <4>2, <5>1
        <5>4. /\ line'.text = "RESULT" /\ line'.label = Best(scores)
              /\ line'.scores = scores
          BY <2>5, <4>2, <5>3 DEF Report
        <5>5. FirstGreatest(scores, FC_OUT, Best(scores))
          BY <5>2, BestIs
        <5>6. PICK best \in 1 .. FC_OUT : best = Best(scores)
          BY <5>5 DEF FirstGreatest
        <5>7. ASSUME NEW k \in 1 .. FC_OUT
              PROVE  /\ scores[k] <= scores[best]
                     /\ k < best => scores[k] < scores[best]
          <6>1. scores[k] \in Int /\ scores[best] \in Int /\ FC_OUT \in Nat
            BY <5>2, StreamAssumption
          <6>2. scores[best] > scores[k] \/ (scores[best] = scores[k] /\ best <= k)
            BY <5>5, <5>6 DEF FirstGreatest
          <6> QED BY <6>1, <6>2
        <5> QED BY <1>1, <5>1, <5>4, <5>6, <5>7 DEF RightLine
      <4> QED BY <2>5, <4>1, <4>2 DEF Report
    <3> QED BY <1>1, <2>2, <3>1, <3>2 DEF InStep, Position, Working
  <2> QED BY <2>3, <2>4, <2>5
<1>6. ASSUME ~aligned, ~stray PROVE OutOfStep(s, n)'
  <2>1. OutOfStep(s, n) /\ n >= 1
    BY <1>3, <1>6 DEF Sent, OutOfStep
  <2>2. pc' \in {"result", "error", "AA"}
    BY DEF Done, GiveUp, Report
  <2> QED BY <1>1, <2>1, <2>2 DEF OutOfStep, Working
<1>7. QED BY <1>1, <1>2, <1>5, <1>6 DEF Sent

\* The accelerator ends.
LEMMA FrameComputed ==
  ASSUME DemoInv, Accelerator, NEW s \in Seq(Byte), NEW n \in Nat, Sent(s, n),
         pc \notin {"boot", "weights"}
  PROVE  Sent(s, n)'
<1>1. /\ accel = "busy" /\ accel' = "done" /\ logits' = Infer(weights, image)
      /\ UNCHANGED <<rdr, rx_done, pc, got, image, line>>
      /\ UNCHANGED <<queue, frame, aligned, goods, stray>> /\ Picture' = Picture
  BY FrameKept DEF Accelerator, progVars, hostVars
<1>2. weights = Network
  BY DEF DemoInv, LoadingWeights
<1>3. Pending(s, n)'
  BY <1>1 DEF Sent, Pending
<1>4. ASSUME aligned PROVE InStep(s, n)'
  <2>1. InStep(s, n)
    BY <1>4 DEF Sent
  <2>2. Position(s)' = Position(s) /\ RightLine' = RightLine
    BY <1>1 DEF Position, RightLine
  <2>3. pc # "result"
    BY <1>1, <2>1 DEF InStep
  <2> QED BY <1>1, <1>2, <2>1, <2>2, <2>3 DEF InStep
<1>5. ASSUME ~aligned, ~stray PROVE OutOfStep(s, n)'
  BY <1>1, <1>5 DEF Sent, OutOfStep
<1>6. QED BY <1>1, <1>3, <1>4, <1>5 DEF Sent

\* A byte arrives.
LEMMA FrameArrives ==
  ASSUME DemoInv, Arrive, NEW s \in Seq(Byte), NEW n \in Nat, Sent(s, n),
         pc \notin {"boot", "weights"}
  PROVE  \E m \in Nat : Sent(s, m)'
<1>1. /\ UNCHANGED <<pc, got, image, line, accel, logits>>
      /\ UNCHANGED <<frame, aligned, goods, stray>> /\ Picture' = Picture
      /\ Listening => ~rx_done
  BY DEF Arrive, progVars, accelVars, Picture, PictureOf
<1>2. Len(s) \in Nat /\ Len(s) >= 2 /\ s[1] = AA /\ s[2] = P55 /\ Pending(s, n)
  BY DEF Sent
<1>3. /\ ~rx_done => Pending(s, n)'
      /\ rx_done => Pending(s, n + 1)'
      /\ n \in 0 .. Len(s) - 1
  BY <1>2, ByteArrives
<1>4. pc \notin Working => Listening
  BY DEF DemoInv, Types, Places, Working, Listening
<1>5. ASSUME aligned PROVE ~rx_done /\ InStep(s, n)'
  <2>1. InStep(s, n)
    BY <1>5 DEF Sent
  <2>2. Position(s)' = Position(s) /\ RightLine' = RightLine
    BY <1>1 DEF Position, RightLine
  <2>3. pc \notin Working
    BY <1>2, <1>3, <2>1 DEF InStep, Position, Working
  <2> QED BY <1>1, <1>4, <2>1, <2>2, <2>3 DEF InStep
<1>6. ASSUME ~aligned, ~stray
      PROVE  /\ ~rx_done => OutOfStep(s, n)'
             /\ rx_done => OutOfStep(s, n + 1)'
  <2>1. OutOfStep(s, n)
    BY <1>6 DEF Sent
  <2>2. CASE ~rx_done
    BY <1>1, <2>1, <2>2 DEF OutOfStep
  <2>3. CASE rx_done
    <3>1. pc \in Working /\ n + 1 >= 1
      BY <1>1, <1>4, <2>3
    <3> QED BY <1>1, <2>1, <2>3, <3>1 DEF OutOfStep, Working
  <2> QED BY <2>2, <2>3
<1>7. CASE ~rx_done
  <2>1. Sent(s, n)'
    BY <1>1, <1>2, <1>3, <1>5, <1>6, <1>7 DEF Sent
  <2> QED BY <2>1
<1>8. CASE rx_done
  <2>1. Sent(s, n + 1)'
    BY <1>1, <1>2, <1>3, <1>5, <1>6, <1>8 DEF Sent
  <2> QED BY <2>1
<1>9. QED BY <1>7, <1>8

\* A frame begins: in step, or where a clean one before it has left the program.
LEMMA FrameStarts ==
  ASSUME DemoInv, NEW bytes \in Seq(Byte), NEW payload \in Payloads,
         NEW good \in BOOLEAN, NewFrame(bytes, payload, good),
         good => bytes = payload
  PROVE  Sent(<<AA, P55>> \o bytes, 0)'
<1> DEFINE s == <<AA, P55>> \o bytes
<1>1. /\ s \in Seq(Byte) /\ Len(s) = Len(bytes) + 2 /\ s[1] = AA /\ s[2] = P55
      /\ \A j \in 1 .. Len(bytes) : s[j + 2] = bytes[j]
  BY FrameBytes
<1>2. Len(bytes) \in Nat
  OBVIOUS
<1>3. /\ AtRest /\ pc \notin {"boot", "weights"} /\ queue' = s /\ rx_done' = FALSE
      /\ frame' = payload /\ aligned' = (good /\ pc = "AA")
      /\ goods' = (IF ~good THEN 0 ELSE IF goods = 0 THEN 1 ELSE goods)
      /\ stray' = (~(good /\ pc = "AA") /\ (stray \/ AA \in ToSet(bytes)))
      /\ line'.text = "none" /\ UNCHANGED <<pc, got>>
  BY DEF NewFrame, AtRest, Listening, Text
<1> HIDE DEF s
<1>4. Pending(s, 0)'
  <2>1. Rest(s, 0) = s /\ 0 \in 0 .. Len(s)
    BY <1>1, <1>2, RestEnds
  <2> QED BY <1>3, <2>1 DEF Pending
<1>5. ASSUME aligned' PROVE InStep(s, 0)'
  <2>1. pc' = "AA" /\ ~stray' /\ s = <<AA, P55>> \o frame'
    BY <1>3, <1>5 DEF s
  <2>2. goods' = 1
    BY <1>3, <1>5 DEF DemoInv, Types
  <2> QED BY <1>3, <2>1, <2>2 DEF InStep, Position, Working
<1>6. ASSUME ~aligned', ~stray' PROVE OutOfStep(s, 0)'
  <2>1. ~(good /\ pc = "AA") /\ ~stray /\ AA \notin ToSet(bytes)
    BY <1>3, <1>6 DEF DemoInv, Types
  <2>2. ASSUME NEW j \in 3 .. Len(s) PROVE s[j] # AA
    <3>1. j - 2 \in 1 .. Len(bytes) /\ (j - 2) + 2 = j
      BY <1>1, <1>2
    <3>2. bytes[j - 2] \in ToSet(bytes)
      BY <3>1 DEF ToSet
    <3> QED BY <1>1, <2>1, <3>1, <3>2
  <2>3. pc \in {"AA", "image"}
    <3>1. PICK t \in Seq(Byte), n \in Nat : Sent(t, n)
      BY <1>3 DEF DemoInv, LastFrame
    <3>2. n = Len(t) /\ n >= 2
      BY <1>3, <3>1, AllCome DEF Sent
    <3>3. pc # "55"
      <4>1. CASE aligned
        BY <3>1, <3>2, <4>1 DEF Sent, InStep, Position
      <4>2. CASE ~aligned
        BY <2>1, <3>1, <3>2, <4>2 DEF Sent, OutOfStep
      <4> QED BY <4>1, <4>2
    <3> QED BY <1>3, <3>3 DEF AtRest, Listening
  <2>4. goods' = 1 => good /\ pc # "AA"
    BY <1>3, <2>1
  <2>5. good => Len(s) = IN_COUNT + 2
    BY <1>1, PayloadBytes
  <2>6. goods' = 1 /\ pc = "image" => Len(s) - 0 >= IN_COUNT - Len(got')
    <3>1. ASSUME goods' = 1, pc = "image" PROVE Len(s) - 0 >= IN_COUNT - Len(got')
      <4>1. Len(s) = IN_COUNT + 2
        BY <2>4, <2>5, <3>1
      <4>2. PICK g \in Nat : g = Len(got')
        BY <1>3, <3>1 DEF DemoInv, Taking
      <4>3. IN_COUNT \in Nat
        BY StreamAssumption
      <4> QED BY <4>1, <4>2, <4>3
    <3> QED BY <3>1
  <2> QED BY <1>3, <2>2, <2>3, <2>4, <2>6 DEF OutOfStep, Working
<1>7. Len(s) >= 2
  BY <1>1, <1>2
<1>8. Sent(s, 0)'
  BY <1>1, <1>4, <1>5, <1>6, <1>7 DEF Sent
<1>9. QED BY <1>8 DEF s

\* The last frame, in every step.
LEMMA LastFrameStep ==
  ASSUME DemoInv, [Next]_vars
  PROVE  LastFrame'
<1>1. SUFFICES ASSUME pc' \notin {"boot", "weights"}
               PROVE  \E s \in Seq(Byte), n \in Nat : Sent(s, n)'
  BY DEF LastFrame
<1>2. ASSUME pc \notin {"boot", "weights"}
      PROVE  \E s \in Seq(Byte), n \in Nat : Sent(s, n)
  BY <1>2 DEF DemoInv, LastFrame
<1>3. CASE Program
  <2>1. UNCHANGED hostVars
    BY <1>3 DEF Program
  <2>2. CASE Ready
    BY <1>1, <2>2 DEF Ready
  <2>3. CASE LoadWeights
    <3>1. LastFrame'
      BY <2>1, <2>3, FrameAfterLoading
    <3> QED BY <1>1, <3>1 DEF LastFrame
  <2>4. CASE waitpre \/ TakeImage
    <3>1. PICK s \in Seq(Byte), n \in Nat : Sent(s, n)
      BY <1>2, <2>4 DEF waitpre, TakeImage
    <3>2. Sent(s, n + 1)' /\ n + 1 \in Nat
      BY <2>1, <2>4, <3>1, FrameSearched, FrameTaken
    <3> QED BY <3>2
  <2>5. CASE Done \/ GiveUp \/ Report
    <3>1. PICK s \in Seq(Byte), n \in Nat : Sent(s, n)
      BY <1>2, <2>5 DEF Done, GiveUp, Report
    <3> QED BY <2>1, <2>5, <3>1, FrameAnswered
  <2> QED BY <1>3, <2>2, <2>3, <2>4, <2>5 DEF Program
<1>4. CASE Accelerator
  <2>1. pc' = pc
    BY <1>4 DEF Accelerator, progVars
  <2> QED BY <1>1, <1>2, <1>4, <2>1, FrameComputed
<1>5. CASE SendWeights
  BY <1>1, <1>5 DEF SendWeights, progVars
<1>6. CASE FrameBegins
  <2>1. PICK bytes \in Seq(Byte), payload \in Payloads, good \in BOOLEAN :
          NewFrame(bytes, payload, good) /\ (good => bytes = payload)
    BY <1>6 DEF FrameBegins
  <2>2. Sent(<<AA, P55>> \o bytes, 0)'
    BY <2>1, FrameStarts
  <2>3. <<AA, P55>> \o bytes \in Seq(Byte)
    BY FrameBytes
  <2> QED BY <2>2, <2>3
<1>7. CASE Arrive
  <2>1. pc' = pc
    BY <1>7 DEF Arrive, progVars
  <2> QED BY <1>1, <1>2, <1>7, <2>1, FrameArrives
<1>8. CASE UNCHANGED vars
  <2>1. pc' = pc
    BY <1>8 DEF vars, progVars
  <2>2. ASSUME NEW s, NEW n, Sent(s, n) PROVE Sent(s, n)'
    <3>1. UNCHANGED <<rdr, rx_done, pc, got, image, accel, logits, line,
                      queue, frame, aligned, goods, stray>>
      BY <1>8 DEF vars, progVars, accelVars, hostVars
    <3>2. /\ Picture' = Picture /\ Position(s)' = Position(s)
          /\ RightLine' = RightLine
      BY <3>1 DEF Picture, PictureOf, Position, RightLine
    <3>3. Pending(s, n)' = Pending(s, n)
      BY <3>1 DEF Pending
    <3>4. InStep(s, n)' = InStep(s, n)
      BY <3>1, <3>2 DEF InStep
    <3>5. OutOfStep(s, n)' = OutOfStep(s, n)
      BY <3>1 DEF OutOfStep
    <3> QED BY <2>2, <3>1, <3>3, <3>4, <3>5 DEF Sent
  <2> QED BY <1>1, <1>2, <2>1, <2>2
<1>9. QED BY <1>3, <1>4, <1>5, <1>6, <1>7, <1>8, Steps

-----------------------------------------------------------------------------
(***************************************************************************)
(* The theorems.                                                           *)
(***************************************************************************)
\* The invariant holds in every state.
LEMMA DemoInvAlways == Spec => []DemoInv
<1>1. ASSUME Init PROVE DemoInv
  <2>1. Types
    <3>1. rdr \in Byte /\ led \in Byte
      BY <1>1 DEF Init, Byte
    <3>2. queue \in Seq(Byte)
      BY <1>1, EmptySeq DEF Init
    <3> QED BY <1>1, <3>1, <3>2 DEF Init, Types, Places
  <2>2. LoadingWeights /\ Taking /\ LastFrame
    BY <1>1 DEF Init, LoadingWeights, Taking, LastFrame
  <2> QED BY <2>1, <2>2 DEF DemoInv
<1>2. ASSUME DemoInv, [Next]_vars PROVE DemoInv'
  BY <1>2, TypesStep, LoadingStep, TakingStep, LastFrameStep DEF DemoInv
<1> QED BY <1>1, <1>2, PTL DEF Spec

\* For every size of weights and images and every file: pixels have seven bits,
\* an image is never overfull, and no byte of the weights is lost.
THEOREM TypeCorrect == Spec => []TypeOK
<1>1. DemoInv => TypeOK
  <2> SUFFICES ASSUME DemoInv PROVE TypeOK
    OBVIOUS
  <2>1. ASSUME pc = "image", NEW k \in 1 .. Len(got) PROVE got[k] \in 0 .. 127
    BY <2>1, ElementOfSeq DEF DemoInv, Taking
  <2> QED BY <2>1
        DEF DemoInv, Types, LoadingWeights, Taking, Places, Byte, TypeOK
<1> QED BY <1>1, DemoInvAlways, PTL

\* For every network, payload and way the host sends, truncates and overfills
\* frames: the line after a well-formed frame that began in step is the answer
\* to that frame under the weights of the files, and its label the first of the
\* greatest scores, or ERR where the accelerator may be too slow.
THEOREM AnswerIsOfFrameAlways == Spec => []AnswerIsOfFrame
<1>1. DemoInv => AnswerIsOfFrame
  <2> SUFFICES ASSUME DemoInv, aligned, line.text # "none" PROVE RightLine
    BY DEF AnswerIsOfFrame, RightLine
  <2>1. pc \notin {"boot", "weights"}
    BY DEF DemoInv, LoadingWeights
  <2>2. PICK s \in Seq(Byte), n \in Nat : Sent(s, n)
    BY <2>1 DEF DemoInv, LastFrame
  <2> QED BY <2>2 DEF Sent, InStep
<1> QED BY <1>1, DemoInvAlways, PTL

\* For every size of image and every sequence of frames cut short and overfull:
\* when a well-formed frame has gone and no byte AA stood where it may have been
\* taken for a preamble, the program searches again.
THEOREM InStepAgainAlways == Spec => []InStepAgain
<1>1. DemoInv => InStepAgain
  <2> SUFFICES ASSUME DemoInv, AtRest, pc # "weights", goods > 0, ~stray
               PROVE  pc = "AA"
    BY DEF InStepAgain
  <2>1. pc \in {"AA", "55", "image"} /\ goods = 1
    BY DEF AtRest, Listening, DemoInv, Types
  <2>2. PICK s \in Seq(Byte), n \in Nat : Sent(s, n)
    BY <2>1 DEF DemoInv, LastFrame
  <2>3. n = Len(s) /\ n >= 2
    BY <2>2, AllCome DEF Sent
  <2>4. pc = "image" => Len(got) \in Nat /\ Len(got) < IN_COUNT /\ IN_COUNT \in Nat
    BY StreamAssumption DEF DemoInv, Taking
  <2>5. CASE aligned
    <3>1. InStep(s, n)
      BY <2>2, <2>5 DEF Sent
    <3>2. Len(s) = IN_COUNT + 2
      BY <3>1, PayloadBytes, FrameBytes DEF InStep
    <3> QED BY <2>1, <2>3, <2>4, <3>1, <3>2 DEF InStep, Position
  <2>6. CASE ~aligned
    <3>1. OutOfStep(s, n)
      BY <2>2, <2>6 DEF Sent
    <3> QED BY <2>1, <2>3, <2>4, <3>1 DEF OutOfStep
  <2> QED BY <2>5, <2>6
<1> QED BY <1>1, DemoInvAlways, PTL

=============================================================================

------------------------- MODULE CaptureFilterProofs -------------------------
(***************************************************************************)
(* What the capture filter publishes, for responses and brigades of any    *)
(* length and buckets of any size.                                         *)
(***************************************************************************)
EXTENDS CaptureFilter, TLAPS

\* The buckets a generator makes.
LEMMA BucketType ==
    ASSUME NEW b \in {Flush, EOS} \cup {Data(n) : n \in Lengths}
    PROVE  b \in Bucket /\ b.len \in Nat /\ (b.kind # "data" => b.len = 0)
  BY LengthsAssumption DEF Flush, EOS, Data, Bucket

\* A brigade without its first bucket.
LEMMA TailFacts ==
    ASSUME NEW s \in Seq(Bucket), s # <<>>
    PROVE  /\ Tail(s) \in Seq(Bucket) /\ Len(s) \in Nat /\ Len(s) > 0
           /\ Len(Tail(s)) = Len(s) - 1
           /\ \A i \in 1..Len(s) - 1 : Tail(s)[i] = s[i + 1]
           /\ Head(s) = s[1] /\ Head(s) \in Bucket /\ Head(s).len \in Nat
           /\ Tail(s) = <<>> <=> Len(s) = 1
<1>1. /\ Tail(s) \in Seq(Bucket) /\ Len(s) \in Nat /\ Len(s) > 0
      /\ Len(Tail(s)) = Len(s) - 1
      /\ \A i \in 1..Len(s) - 1 : Tail(s)[i] = s[i + 1]
      /\ Head(s) = s[1] /\ Head(s) \in Bucket
  OBVIOUS
<1>2. Head(s).len \in Nat
  BY <1>1 DEF Bucket
<1>3. Tail(s) = <<>> <=> Len(s) = 1
  BY <1>1
<1>. QED
  BY <1>1, <1>2, <1>3

\* A bucket added to a brigade adds its length to the total.
LEMMA AddsUpAppend ==
    ASSUME NEW s \in Seq(Bucket), NEW b \in Bucket, NEW n, NEW total \in Nat,
           AddsUp(n, s, total)
    PROVE  AddsUp(n, Append(s, b), total + b.len)
<1>1. PICK off \in [0..Len(s) -> 0..total] :
         /\ off[0] = n /\ off[Len(s)] = total
         /\ \A i \in 1..Len(s) : off[i] = off[i - 1] + s[i].len
  BY DEF AddsUp
<1>. DEFINE t == Append(s, b)
            f == [i \in 0..Len(t) |-> IF i <= Len(s) THEN off[i] ELSE total + b.len]
<1>2. /\ Len(s) \in Nat /\ Len(t) = Len(s) + 1
      /\ t[Len(s) + 1] = b
      /\ \A i \in 1..Len(s) : t[i] = s[i]
      /\ b.len \in Nat
  BY DEF Bucket
<1>. HIDE DEF t
<1>3. f \in [0..Len(t) -> 0..total + b.len]
  BY <1>1, <1>2
<1>4. f[0] = n /\ f[Len(t)] = total + b.len
  BY <1>1, <1>2
<1>5. ASSUME NEW i \in 1..Len(t)
      PROVE  f[i] = f[i - 1] + t[i].len
  <2>1. CASE i <= Len(s)
    BY <1>1, <1>2, <2>1
  <2>2. CASE i = Len(s) + 1
    BY <1>1, <1>2, <2>2
  <2>. QED
    BY <1>2, <2>1, <2>2
<1>6. AddsUp(n, t, total + b.len)
  BY <1>3, <1>4, <1>5 DEF AddsUp
<1>. QED
  BY <1>6 DEF t

\* The length of the first bucket moves to the bytes already counted.
LEMMA AddsUpTail ==
    ASSUME NEW s \in Seq(Bucket), s # <<>>, NEW n, NEW total \in Nat, AddsUp(n, s, total)
    PROVE  AddsUp(n + Head(s).len, Tail(s), total)
<1>1. PICK off \in [0..Len(s) -> 0..total] :
         /\ off[0] = n /\ off[Len(s)] = total
         /\ \A i \in 1..Len(s) : off[i] = off[i - 1] + s[i].len
  BY DEF AddsUp
<1>. DEFINE t == Tail(s)
            f == [i \in 0..Len(t) |-> off[i + 1]]
<1>2. /\ Len(s) \in Nat /\ Len(s) > 0 /\ Len(t) = Len(s) - 1
      /\ \A i \in 1..Len(t) : t[i] = s[i + 1]
      /\ Head(s) = s[1]
  BY TailFacts
<1>. HIDE DEF t
<1>3. f \in [0..Len(t) -> 0..total]
  BY <1>1, <1>2
<1>4. f[0] = n + Head(s).len /\ f[Len(t)] = total
  BY <1>1, <1>2
<1>5. ASSUME NEW i \in 1..Len(t)
      PROVE  f[i] = f[i - 1] + t[i].len
  <2>1. i + 1 \in 1..Len(s) /\ i \in 0..Len(t) /\ i - 1 \in 0..Len(t)
    BY <1>2
  <2>2. off[i + 1] = off[(i + 1) - 1] + s[i + 1].len /\ (i + 1) - 1 = i /\ (i - 1) + 1 = i
    BY <1>1, <2>1
  <2>3. f[i] = off[i + 1] /\ f[i - 1] = off[i] /\ t[i] = s[i + 1]
    BY <1>2, <2>1, <2>2
  <2>. QED
    BY <2>2, <2>3
<1>6. AddsUp(n + Head(s).len, t, total)
  BY <1>3, <1>4, <1>5 DEF AddsUp
<1>. QED
  BY <1>6 DEF t

\* Nothing but the EOS bucket is left, so everything has been counted.
LEMMA AddsUpLast ==
    ASSUME NEW s \in Seq(Bucket), Len(s) = 1, s[1].len = 0, NEW n, NEW total, AddsUp(n, s, total)
    PROVE  n = total
<1>1. PICK off \in [0..Len(s) -> 0..total] :
         /\ off[0] = n /\ off[Len(s)] = total
         /\ \A i \in 1..Len(s) : off[i] = off[i - 1] + s[i].len
  BY DEF AddsUp
<1>. QED
  BY <1>1

-----------------------------------------------------------------------------
(* One lemma for each action.                                              *)

\* The state in which the filter is put into the chain.
LEMMA InitFilter == Init => FilterInv
<1>. SUFFICES ASSUME Init PROVE FilterInv
  OBVIOUS
<1>1. /\ sent = 0 /\ bb = <<>> /\ body_len = 0 /\ tmp_body = NoLength /\ entry = NoLength
      /\ declared \in Length
  BY BoundsAssumption DEF Init, Length
<1>2. /\ ~aborted /\ ~eos /\ ~calling /\ inChain /\ ~started /\ ~cacheable /\ ~lost
      /\ ~trusted /\ ~cut
  BY DEF Init
<1>3. TypeOK
  <2>1. /\ aborted \in BOOLEAN /\ eos \in BOOLEAN /\ calling \in BOOLEAN /\ inChain \in BOOLEAN
        /\ started \in BOOLEAN /\ cacheable \in BOOLEAN /\ lost \in BOOLEAN
        /\ trusted \in BOOLEAN /\ cut \in BOOLEAN
    BY Zenon DEF Init
  <2>2. bb \in Seq(Bucket) /\ sent \in Nat /\ body_len \in Nat /\ NoLength \in Length
    BY <1>1 DEF Length
  <2>. QED
    BY <1>1, <2>1, <2>2 DEF TypeOK
<1>4. AddsUp(0, <<>>, 0)
  <2>. DEFINE f == [i \in 0..0 |-> 0]
  <2>1. /\ Len(<<>>) = 0
        /\ f \in [0..0 -> 0..0] /\ f[0] = 0
        /\ \A i \in 1..0 : f[i] = f[i - 1] + (<<>>)[i].len
    OBVIOUS
  <2>. HIDE DEF f
  <2>. QED
    BY <2>1 DEF AddsUp
<1>5. WellFormed
  BY <1>1 DEF WellFormed
<1>. QED
  BY <1>1, <1>2, <1>3, <1>4, <1>5
     DEF FilterInv, Captures, Finalizing, BeforeFirstCall, WhileCapturing, AfterCapture, EndAhead

\* A bucket more in the brigade is as many bytes more that were sent.
LEMMA GeneratePreserves ==
    ASSUME FilterInv, NEW b \in {Flush, EOS} \cup {Data(n) : n \in Lengths}, Generate(b)
    PROVE  Captures'
<1>. USE DEF FilterInv, Captures
<1>1. b \in Bucket /\ b.len \in Nat /\ (b.kind # "data" => b.len = 0)
  BY BucketType
<1>2. /\ bb' = Append(bb, b) /\ bb' \in Seq(Bucket) /\ bb' # <<>>
      /\ Len(bb) \in Nat /\ Len(bb') = Len(bb) + 1 /\ bb'[Len(bb')] = b
      /\ \A i \in 1..Len(bb) : bb'[i] = bb[i]
  BY <1>1 DEF Generate, TypeOK
<1>3. TypeOK'
  BY <1>1, <1>2 DEF Generate, TypeOK, ctx
<1>4. \A i \in DOMAIN bb : bb[i].kind # "eos"
  BY DEF WellFormed, Generate
<1>5. WellFormed'
  <2>. SUFFICES ASSUME NEW i \in 1..Len(bb')
                PROVE  /\ bb'[i].kind # "data" => bb'[i].len = 0
                       /\ bb'[i].kind = "eos" => i = Len(bb') /\ eos'
    BY <1>2 DEF WellFormed
  <2>1. CASE i \in 1..Len(bb)
    <3>1. bb'[i] = bb[i] /\ i \in DOMAIN bb
      BY <1>2, <2>1 DEF TypeOK
    <3>. QED
      BY <1>4, <3>1 DEF WellFormed
  <2>2. CASE i = Len(bb')
    BY <1>1, <1>2, <2>2 DEF Generate
  <2>. QED
    BY <1>2, <2>1, <2>2
<1>6. \A n : AddsUp(n, bb, sent) => AddsUp(n, bb', sent')
  BY <1>1, AddsUpAppend DEF Generate, TypeOK
<1>7. EndAhead'
  BY <1>2 DEF EndAhead, Generate
<1>8. BeforeFirstCall'
  BY <1>6, <1>7 DEF BeforeFirstCall, Generate, ctx
<1>9. WhileCapturing'
  BY <1>6, <1>7 DEF WhileCapturing, Generate, ctx
<1>10. AfterCapture'
  BY DEF AfterCapture, Generate, ctx
<1>. QED
  BY <1>3, <1>5, <1>8, <1>9, <1>10

\* The capture begins with an empty file and the whole response ahead, or the
\* filter leaves the chain.
LEMMA FirstCallPreserves ==
    ASSUME FilterInv, NEW ok \in BOOLEAN, FirstCall(ok)
    PROVE  Captures'
<1>. USE DEF FilterInv, Captures, FirstCall, origin
<1>1. TypeOK'
  BY DEF TypeOK, Length
<1>2. WellFormed' /\ EndAhead'
  BY DEF WellFormed, EndAhead, BeforeFirstCall
<1>3. BeforeFirstCall'
  BY DEF BeforeFirstCall
<1>4. WhileCapturing'
  BY <1>2 DEF WhileCapturing, BeforeFirstCall
<1>5. AfterCapture'
  BY LengthsAssumption DEF AfterCapture, BeforeFirstCall
<1>. QED
  BY <1>1, <1>2, <1>3, <1>4, <1>5

\* What all steps that take the first bucket off the brigade have in common.
LEMMA Taken ==
    ASSUME FilterInv, calling, bb # <<>>, bb' = Tail(bb), UNCHANGED <<origin, calling, started>>
    PROVE  /\ started /\ bb' \in Seq(Bucket) /\ WellFormed' /\ BeforeFirstCall'
           /\ Head(bb).kind # "eos" /\ EndAhead => EndAhead'
           /\ Head(bb).kind = "eos" => eos /\ bb' = <<>> /\ Len(bb) = 1 /\ bb[1].len = 0
           /\ \A n : AddsUp(n, bb, sent) => AddsUp(n + Head(bb).len, bb', sent')
<1>. USE DEF FilterInv, Captures, origin
<1>1. bb \in Seq(Bucket) /\ DOMAIN bb = 1..Len(bb) /\ sent \in Nat
  BY DEF TypeOK
<1>2. /\ bb' \in Seq(Bucket) /\ Len(bb) \in Nat /\ Len(bb) > 0 /\ Len(bb') = Len(bb) - 1
      /\ \A i \in 1..Len(bb') : bb'[i] = bb[i + 1]
      /\ Head(bb) = bb[1]
      /\ bb' = <<>> <=> Len(bb) = 1
      /\ DOMAIN bb' = 1..Len(bb')
  BY <1>1, TailFacts
<1>3. started
  BY DEF BeforeFirstCall
<1>4. WellFormed'
  <2>. SUFFICES ASSUME NEW i \in 1..Len(bb')
                PROVE  /\ bb'[i].kind # "data" => bb'[i].len = 0
                       /\ bb'[i].kind = "eos" => i = Len(bb') /\ eos
    BY <1>2 DEF WellFormed
  <2>1. i + 1 \in DOMAIN bb /\ bb'[i] = bb[i + 1]
    BY <1>1, <1>2
  <2>2. /\ bb[i + 1].kind # "data" => bb[i + 1].len = 0
        /\ bb[i + 1].kind = "eos" => i + 1 = Len(bb) /\ eos
    BY <2>1 DEF WellFormed
  <2>3. \A k, l \in Nat : k + 1 = l => k = l - 1
    OBVIOUS
  <2>4. i + 1 = Len(bb) => i = Len(bb')
    BY <1>2, <2>3, i \in Nat, Zenon
  <2>. QED
    BY <2>1, <2>2, <2>4, Zenon
<1>5. BeforeFirstCall'
  BY <1>3 DEF BeforeFirstCall
<1>6. Head(bb).kind = "eos" => eos /\ bb' = <<>> /\ Len(bb) = 1 /\ bb[1].len = 0
  BY <1>1, <1>2 DEF WellFormed
<1>7. Head(bb).kind # "eos" /\ EndAhead => EndAhead'
  <2>. SUFFICES ASSUME Head(bb).kind # "eos", bb[Len(bb)].kind = "eos"
                PROVE  bb' # <<>> /\ bb'[Len(bb')].kind = "eos"
    BY DEF EndAhead
  <2>1. Len(bb) # 1
    BY <1>2
  <2>2. Len(bb') \in 1..Len(bb') /\ Len(bb') + 1 = Len(bb)
    BY <1>2, <2>1
  <2>. QED
    BY <1>2, <2>1, <2>2
<1>8. \A n : AddsUp(n, bb, sent) => AddsUp(n + Head(bb).len, bb', sent')
  BY <1>1, AddsUpTail
<1>. QED
  BY <1>2, <1>3, <1>4, <1>5, <1>6, <1>7, <1>8

\* A bucket that is passed over is empty, or nothing is being captured.
LEMMA PassOverPreserves == FilterInv /\ PassOver => Captures'
<1>. SUFFICES ASSUME FilterInv, PassOver PROVE Captures'
  OBVIOUS
<1>. USE DEF FilterInv, Captures
<1>1. UNCHANGED <<sent, declared, eos, cut, trusted, calling, started, cacheable, body_len, inChain, tmp_body, entry, lost, aborted>>
  BY DEF PassOver, origin, ctx
<1>2. /\ calling /\ bb # <<>> /\ bb' = Tail(bb)
      /\ ~cacheable \/ Head(bb).kind = "flush" \/ (Head(bb).kind = "data" /\ Head(bb).len = 0)
  BY DEF PassOver
<1>3. /\ bb' \in Seq(Bucket) /\ WellFormed' /\ BeforeFirstCall' /\ started
      /\ Head(bb).kind # "eos" /\ EndAhead => EndAhead'
      /\ \A n : AddsUp(n, bb, sent) => AddsUp(n + Head(bb).len, bb', sent')
  BY <1>1, <1>2, Taken DEF origin
<1>4. TypeOK'
  BY <1>1, <1>3 DEF TypeOK
<1>5. WhileCapturing'
  <2>. SUFFICES ASSUME tmp_body # NoLength
                PROVE  /\ ~lost => AddsUp(tmp_body, bb', sent)
                       /\ EndAhead'
    BY <1>1 DEF WhileCapturing
  <2>1. cacheable /\ EndAhead /\ (~lost => AddsUp(tmp_body, bb, sent)) /\ tmp_body \in Nat
    BY DEF WhileCapturing, TypeOK, Length
  <2>2. Head(bb).kind # "eos" /\ Head(bb).len = 0
    <3>1. Head(bb) = bb[1] /\ 1 \in DOMAIN bb
      BY <1>2, TailFacts DEF TypeOK
    <3>. QED
      BY <1>2, <2>1, <3>1 DEF WellFormed
  <2>3. tmp_body + Head(bb).len = tmp_body
    BY <2>1, <2>2
  <2>. QED
    BY <1>1, <1>3, <2>1, <2>2, <2>3
<1>6. AfterCapture'
  BY <1>1, <1>2 DEF AfterCapture
<1>. QED
  BY <1>3, <1>4, <1>5, <1>6

\* The bytes of the bucket move from the brigade into the file.
LEMMA CapturePreserves == FilterInv /\ Capture => Captures'
<1>. SUFFICES ASSUME FilterInv, Capture PROVE Captures'
  OBVIOUS
<1>. USE DEF FilterInv, Captures
<1>1. UNCHANGED <<sent, declared, eos, cut, trusted, calling, started, cacheable, inChain, entry, lost, aborted>>
  BY DEF Capture, origin
<1>2. /\ calling /\ bb # <<>> /\ bb' = Tail(bb) /\ cacheable /\ Head(bb).kind # "eos"
      /\ tmp_body' = tmp_body + Head(bb).len /\ body_len' = body_len + Head(bb).len
  BY DEF Capture, AtData
<1>3. /\ bb' \in Seq(Bucket) /\ WellFormed' /\ BeforeFirstCall' /\ started
      /\ Head(bb).kind # "eos" /\ EndAhead => EndAhead'
      /\ \A n : AddsUp(n, bb, sent) => AddsUp(n + Head(bb).len, bb', sent')
  BY <1>1, <1>2, Taken DEF origin
<1>4. tmp_body # NoLength
  BY <1>2 DEF AfterCapture
<1>5. /\ tmp_body \in Nat /\ body_len \in Nat /\ Head(bb).len \in Nat
      /\ tmp_body' \in Nat /\ body_len' \in Nat
  <2>1. tmp_body \in Nat /\ body_len \in Nat
    BY <1>4 DEF TypeOK, Length
  <2>2. Head(bb).len \in Nat
    BY <1>2, TailFacts DEF TypeOK
  <2>. QED
    BY <1>2, <2>1, <2>2
<1>6. TypeOK'
  BY <1>1, <1>3, <1>5 DEF TypeOK, Length
<1>7. WhileCapturing'
  BY <1>1, <1>2, <1>3, <1>4, <1>5 DEF WhileCapturing
<1>8. AfterCapture'
  BY <1>1, <1>2, <1>4, <1>5, LengthsAssumption DEF AfterCapture
<1>. QED
  BY <1>3, <1>6, <1>7, <1>8

\* The file is removed and the filter leaves the chain.
LEMMA GiveUpPreserves == FilterInv /\ GiveUp => Captures'
<1>. SUFFICES ASSUME FilterInv, GiveUp PROVE Captures'
  OBVIOUS
<1>. USE DEF FilterInv, Captures
<1>1. UNCHANGED <<sent, declared, eos, cut, trusted, calling, started, body_len, entry, lost, aborted>>
  BY DEF GiveUp, origin
<1>2. /\ calling /\ bb # <<>> /\ bb' = Tail(bb) /\ cacheable
      /\ tmp_body' = NoLength /\ cacheable' = FALSE /\ inChain' = FALSE
  BY DEF GiveUp, AtData
<1>3. bb' \in Seq(Bucket) /\ WellFormed' /\ BeforeFirstCall' /\ started
  BY <1>1, <1>2, Taken DEF origin
<1>4. TypeOK'
  BY <1>1, <1>2, <1>3 DEF TypeOK, Length
<1>5. WhileCapturing' /\ AfterCapture'
  BY <1>1, <1>2 DEF WhileCapturing, AfterCapture
<1>. QED
  BY <1>3, <1>4, <1>5

\* From here on the file is short of what was sent, and lost says so.
LEMMA LoseBucketPreserves == FilterInv /\ LoseBucket => Captures'
<1>. SUFFICES ASSUME FilterInv, LoseBucket PROVE Captures'
  OBVIOUS
<1>. USE DEF FilterInv, Captures
<1>1. UNCHANGED <<sent, declared, eos, cut, trusted, calling, started, cacheable, body_len, inChain, tmp_body, entry, aborted>>
  BY DEF LoseBucket, origin, ctx
<1>2. calling /\ bb # <<>> /\ bb' = Tail(bb) /\ cacheable /\ Head(bb).kind # "eos" /\ lost' = TRUE
  BY DEF LoseBucket, AtData
<1>3. /\ bb' \in Seq(Bucket) /\ WellFormed' /\ BeforeFirstCall' /\ started
      /\ Head(bb).kind # "eos" /\ EndAhead => EndAhead'
  BY <1>1, <1>2, Taken DEF origin
<1>4. TypeOK'
  BY <1>1, <1>2, <1>3 DEF TypeOK
<1>5. WhileCapturing' /\ AfterCapture'
  BY <1>1, <1>2, <1>3 DEF WhileCapturing, AfterCapture
<1>. QED
  BY <1>3, <1>4, <1>5

\* At the end of the response the file holds all of it, or a bucket was lost.
LEMMA PublishPreserves == FilterInv /\ Publish => Captures'
<1>. SUFFICES ASSUME FilterInv, Publish PROVE Captures'
  OBVIOUS
<1>. USE DEF FilterInv, Captures
<1>1. UNCHANGED <<sent, declared, eos, cut, calling, started, cacheable, body_len, inChain, lost, aborted>>
  BY DEF Publish, origin, ctx
<1>2. /\ calling /\ bb # <<>> /\ bb' = Tail(bb) /\ cacheable /\ Head(bb).kind = "eos"
      /\ entry' = tmp_body /\ tmp_body' = NoLength /\ declared \in {NoLength, body_len}
      /\ trusted' = FALSE
  BY DEF Publish, AtEOS, Finalizing
<1>3. /\ bb' \in Seq(Bucket) /\ WellFormed' /\ BeforeFirstCall' /\ started
      /\ eos /\ bb' = <<>> /\ Len(bb) = 1 /\ bb[1].len = 0
  BY <1>1, <1>2, Taken DEF origin
<1>4. TypeOK'
  BY <1>1, <1>2, <1>3 DEF TypeOK, Length
<1>5. tmp_body # NoLength /\ body_len = tmp_body /\ (~lost => AddsUp(tmp_body, bb, sent))
  BY <1>2 DEF AfterCapture, WhileCapturing
<1>6. ~lost => tmp_body = sent
  BY <1>3, <1>5, AddsUpLast DEF TypeOK
<1>7. WhileCapturing' /\ AfterCapture'
  BY <1>1, <1>2, <1>3, <1>5, <1>6 DEF WhileCapturing, AfterCapture
<1>. QED
  BY <1>3, <1>4, <1>7

\* At the end of the response the file is removed.
LEMMA DiscardPreserves == FilterInv /\ Discard => Captures'
<1>. SUFFICES ASSUME FilterInv, Discard PROVE Captures'
  OBVIOUS
<1>. USE DEF FilterInv, Captures
<1>1. UNCHANGED <<sent, declared, eos, cut, calling, started, cacheable, body_len, inChain, entry, lost, aborted>>
  BY DEF Discard, origin, ctx
<1>2. /\ calling /\ bb # <<>> /\ bb' = Tail(bb) /\ cacheable /\ Head(bb).kind = "eos"
      /\ tmp_body' = NoLength /\ trusted' = FALSE
  BY DEF Discard, AtEOS
<1>3. /\ bb' \in Seq(Bucket) /\ WellFormed' /\ BeforeFirstCall' /\ started /\ eos /\ bb' = <<>>
  BY <1>1, <1>2, Taken DEF origin
<1>4. TypeOK'
  BY <1>1, <1>2, <1>3 DEF TypeOK, Length
<1>5. WhileCapturing' /\ AfterCapture'
  BY <1>1, <1>2, <1>3 DEF WhileCapturing, AfterCapture
<1>. QED
  BY <1>3, <1>4, <1>5

\* Without the filter in the chain there is no capture to disturb.
LEMMA UnfilteredPreserves == FilterInv /\ Unfiltered => Captures'
<1>. SUFFICES ASSUME FilterInv, Unfiltered PROVE Captures'
  OBVIOUS
<1>. USE DEF FilterInv, Captures
<1>1. UNCHANGED <<sent, declared, eos, cut, trusted, aborted, calling, inChain, started, cacheable, body_len, tmp_body, entry, lost>>
  BY DEF Unfiltered, origin, ctx
<1>2. bb' = <<>> /\ ~inChain
  BY DEF Unfiltered
<1>3. started /\ ~cacheable /\ tmp_body = NoLength
  BY <1>2 DEF BeforeFirstCall, AfterCapture, WhileCapturing
<1>4. TypeOK' /\ WellFormed'
  BY <1>1, <1>2 DEF TypeOK, WellFormed
<1>5. BeforeFirstCall' /\ WhileCapturing' /\ AfterCapture'
  BY <1>1, <1>2, <1>3 DEF BeforeFirstCall, WhileCapturing, AfterCapture
<1>. QED
  BY <1>4, <1>5

\* Calls begin and end, and clients hang up, with the file as it is.
LEMMA OthersPreserve ==
    FilterInv /\ (LaterCall \/ PassOn \/ Check \/ Abort \/ UNCHANGED vars) => Captures'
<1>. SUFFICES ASSUME FilterInv, LaterCall \/ PassOn \/ Check \/ Abort \/ UNCHANGED vars PROVE Captures'
  OBVIOUS
<1>. USE DEF FilterInv, Captures
<1>1. /\ UNCHANGED <<sent, declared, eos, cut, bb, inChain, started, cacheable, body_len, tmp_body, entry, lost>>
      /\ calling' \in BOOLEAN /\ aborted' \in BOOLEAN /\ trusted' \in BOOLEAN
      /\ ~started => calling' = calling \/ calling' = FALSE
  BY DEF LaterCall, PassOn, Check, Abort, vars, origin, ctx, TypeOK
<1>2. TypeOK' /\ WellFormed'
  BY <1>1 DEF TypeOK, WellFormed
<1>3. EndAhead => EndAhead'
  BY <1>1 DEF EndAhead
<1>4. BeforeFirstCall'
  BY <1>1, <1>3 DEF BeforeFirstCall
<1>5. WhileCapturing' /\ AfterCapture'
  BY <1>1, <1>3 DEF WhileCapturing, AfterCapture
<1>. QED
  BY <1>2, <1>4, <1>5

\* Once the checks have passed, only the client, the renames or their failure
\* come next, and a client that goes now does not cut the response short.
LEMMA FinalizingStep == FilterInv /\ Captures' /\ [Next]_vars => Finalizing'
<1>. SUFFICES ASSUME FilterInv, Captures', [Next]_vars PROVE Finalizing'
  OBVIOUS
<1>. USE DEF FilterInv, Finalizing
<1>1. ASSUME NEW b \in {Flush, EOS} \cup {Data(n) : n \in Lengths}, Generate(b)
      PROVE  Finalizing'
  <2>1. entry = NoLength /\ ~trusted
    BY <1>1 DEF Generate, Captures, AfterCapture
  <2>. QED
    BY <1>1, <2>1 DEF Generate
<1>2. ASSUME NEW ok \in BOOLEAN, FirstCall(ok)
      PROVE  Finalizing'
  BY <1>2 DEF FirstCall, origin, AtEOS
<1>3. CASE Capture \/ GiveUp \/ LoseBucket
  BY <1>3 DEF Capture, GiveUp, LoseBucket, AtData, AtEOS, origin
<1>4. CASE LaterCall \/ Unfiltered \/ PassOn \/ PassOver
  BY <1>4 DEF LaterCall, Unfiltered, PassOn, PassOver, AtEOS, origin
<1>5. CASE Check
  <2>1. eos /\ ~cut /\ AtEOS'
    <3>1. eos
      BY <1>5, TailFacts DEF Check, AtEOS, Captures, TypeOK, WellFormed
    <3>2. ~cut
      BY <1>5 DEF Check, Complete
    <3>. QED
      BY <1>5, <3>1, <3>2 DEF Check, AtEOS, ctx
  <2>. QED
    BY <1>5, <2>1 DEF Check, Complete, origin, ctx
<1>6. CASE Publish \/ Discard
  BY <1>6 DEF Publish, Discard, origin
<1>7. CASE Abort
  BY <1>7 DEF Abort, origin, ctx, AtEOS
<1>8. CASE Ended \/ UNCHANGED vars
  BY <1>8 DEF Ended, vars, AtEOS
<1>. QED
  BY <1>1, <1>2, <1>3, <1>4, <1>5, <1>6, <1>7, <1>8 DEF Next, FilterStep

-----------------------------------------------------------------------------
(* The theorems.                                                           *)

\* FilterInv holds through any response: brigades of any length, buckets of
\* any size, failing reads and writes anywhere and a client that may hang up
\* at any point (cacher_output_filter with finalize_cache_entry).
THEOREM FilterInvariant == Spec => []FilterInv
<1>1. FilterInv /\ [Next]_vars => Captures'
  <2>. SUFFICES ASSUME FilterInv, [Next]_vars PROVE Captures'
    OBVIOUS
  <2>1. ASSUME NEW b \in {Flush, EOS} \cup {Data(n) : n \in Lengths}, Generate(b)
        PROVE  Captures'
    BY <2>1, GeneratePreserves
  <2>2. ASSUME NEW ok \in BOOLEAN, FirstCall(ok)
        PROVE  Captures'
    BY <2>2, FirstCallPreserves
  <2>3. CASE LaterCall \/ PassOn \/ Check \/ Abort \/ Ended \/ UNCHANGED vars
    BY <2>3, OthersPreserve DEF Ended
  <2>4. CASE Unfiltered \/ PassOver \/ Capture \/ GiveUp \/ LoseBucket \/ Publish \/ Discard
    BY <2>4, UnfilteredPreserves, PassOverPreserves, CapturePreserves, GiveUpPreserves,
       LoseBucketPreserves, PublishPreserves, DiscardPreserves
  <2>. QED
    BY <2>1, <2>2, <2>3, <2>4 DEF Next, FilterStep
<1>2. FilterInv /\ [Next]_vars => FilterInv'
  BY <1>1, FinalizingStep DEF FilterInv
<1>. QED
  BY <1>2, InitFilter, PTL DEF Spec

\* Every variable of the filter keeps its type.
THEOREM TypeCorrect == Spec => []TypeOK
<1>1. FilterInv => TypeOK
  BY DEF FilterInv, Captures
<1>. QED
  BY <1>1, FilterInvariant, PTL

\* Once a response has ended and passed, no temporary body is left, whichever
\* way the filter took out of its loop.
THEOREM NoTemporaryBodyLeft == Spec => []NoTempLeft
<1>1. FilterInv => NoTempLeft
  BY DEF FilterInv, Captures, WhileCapturing, EndAhead, NoTempLeft
<1>. QED
  BY <1>1, FilterInvariant, PTL

\* A published body is the whole response, but for a bucket that could not be
\* read in a response without a declared length or with a wrong one.
THEOREM OnlyWholeResponses == Spec => []PublishedIsWhole
<1>1. FilterInv => PublishedIsWhole
  BY LengthsAssumption DEF FilterInv, Captures, TypeOK, AfterCapture, PublishedIsWhole, Length
<1>. QED
  BY <1>1, FilterInvariant, PTL

\* A response with a Content-Length is published at that length or not at all,
\* and not before its end.
THEOREM LengthAsDeclared == Spec => []PublishedAsDeclared
<1>1. FilterInv => PublishedAsDeclared
  BY DEF FilterInv, Captures, AfterCapture, PublishedAsDeclared
<1>. QED
  BY <1>1, FilterInvariant, PTL

\* body_len, which the length check relies on, is the size of the file.
THEOREM CountsWhatItWrote == Spec => []CountIsFileSize
<1>1. FilterInv => CountIsFileSize
  BY DEF FilterInv, Captures, WhileCapturing, CountIsFileSize
<1>. QED
  BY <1>1, FilterInvariant, PTL

\* A response whose end came after its client had hung up is never published:
\* finalize_cache_entry looks at the connection after the end has been seen.
THEOREM NothingCutShort == Spec => []CutShortNotPublished
<1>1. FilterInv => CutShortNotPublished
  BY DEF FilterInv, Finalizing, CutShortNotPublished
<1>. QED
  BY <1>1, FilterInvariant, PTL
==============================================================================

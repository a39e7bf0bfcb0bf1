---------------------------- MODULE CaptureFilter ----------------------------
(***************************************************************************)
(* One response through the CACHER_OUT filter, bucket by bucket            *)
(* (cacher_output_filter, and finalize_cache_entry as its last step): what *)
(* is captured, when the filter gives up, and what it publishes.  How the  *)
(* files of several requests interleave is EntryStore's subject; here the  *)
(* cache directory belongs to this response.                               *)
(***************************************************************************)
EXTENDS Naturals, Sequences

CONSTANTS
    Lengths,     \* sizes of data buckets, 0 among them
    MaxBytes,    \* bound on the response
    MaxBrigade,  \* bound on the buckets of one brigade
    NoLength     \* no Content-Length (a chunked response), and no entry

ASSUME LengthsAssumption == Lengths \subseteq Nat /\ NoLength \notin Nat
ASSUME BoundsAssumption == MaxBytes \in Nat /\ MaxBrigade \in Nat

VARIABLES
    sent,       \* bytes the generator has put into brigades
    declared,   \* Content-Length in r->headers_out
    aborted,    \* r->connection->aborted
    eos,        \* the generator has ended the response
    bb,         \* the brigade being filled, or what is left of it to loop over
    calling,    \* the filter is looping over bb
    inChain,    \* the filter has not removed itself
    started, cacheable, body_len,   \* its cacher_out_ctx
    tmp_body,   \* bytes in the temporary body file, NoLength if there is none
    entry,      \* bytes of the published body, NoLength if there is none
    trusted,    \* finalize_cache_entry is past its completeness checks
    lost,       \* history: a bucket that could not be read was passed over
    cut         \* history: the client had hung up when the response ended

vars == <<sent, declared, aborted, eos, bb, calling, inChain, started, cacheable, body_len,
          tmp_body, entry, trusted, lost, cut>>
ctx    == <<started, cacheable, body_len>>
origin == <<sent, declared, eos, cut>>

Data(n) == [kind |-> "data", len |-> n]
Flush   == [kind |-> "flush", len |-> 0]
EOS     == [kind |-> "eos", len |-> 0]
Bucket  == [kind : {"data", "flush", "eos"}, len : Nat]
Length  == Nat \cup {NoLength}

\* Every variable has its type; no length is ever negative.
TypeOK ==
    /\ sent \in Nat /\ declared \in Length
    /\ aborted \in BOOLEAN /\ eos \in BOOLEAN
    /\ bb \in Seq(Bucket) /\ calling \in BOOLEAN
    /\ inChain \in BOOLEAN /\ started \in BOOLEAN /\ cacheable \in BOOLEAN
    /\ body_len \in Nat
    /\ tmp_body \in Length /\ entry \in Length
    /\ trusted \in BOOLEAN /\ lost \in BOOLEAN /\ cut \in BOOLEAN

\* cacher_cache_insert_filter has put the filter in the chain.
Init ==
    /\ sent = 0 /\ declared \in 0..MaxBytes \cup {NoLength}
    /\ aborted = FALSE /\ eos = FALSE
    /\ bb = <<>> /\ calling = FALSE
    /\ inChain = TRUE /\ started = FALSE /\ cacheable = FALSE /\ body_len = 0
    /\ tmp_body = NoLength /\ entry = NoLength
    /\ trusted = FALSE /\ lost = FALSE /\ cut = FALSE

-----------------------------------------------------------------------------
\* The generator adds a bucket to the brigade it will pass next.
Generate(b) ==
    /\ ~eos /\ ~calling
    /\ Len(bb) < MaxBrigade
    /\ sent + b.len <= MaxBytes
    /\ sent' = sent + b.len
    /\ eos' = (b.kind = "eos")
    /\ cut' = (b.kind = "eos" /\ aborted)
    /\ bb' = Append(bb, b)
    /\ UNCHANGED <<declared, aborted, calling, inChain, ctx, tmp_body, entry, trusted, lost>>

\* Status, type, method and credentials allow it, and the temporary file could
\* be created; otherwise the filter takes itself out.
FirstCall(ok) ==
    /\ ~calling /\ bb # <<>> /\ ~started
    /\ calling' = TRUE
    /\ started' = TRUE
    /\ cacheable' = ok
    /\ inChain' = ok
    /\ tmp_body' = IF ok THEN 0 ELSE NoLength
    /\ UNCHANGED <<origin, aborted, bb, body_len, entry, trusted, lost>>

LaterCall ==
    /\ ~calling /\ bb # <<>> /\ started /\ inChain
    /\ calling' = TRUE
    /\ UNCHANGED <<origin, aborted, bb, inChain, ctx, tmp_body, entry, trusted, lost>>

\* Without the filter the brigade goes straight to the next one.
Unfiltered ==
    /\ ~calling /\ bb # <<>> /\ ~inChain
    /\ bb' = <<>>
    /\ UNCHANGED <<origin, aborted, calling, inChain, ctx, tmp_body, entry, trusted, lost>>

\* The loop is over: ap_pass_brigade.
PassOn ==
    /\ calling /\ bb = <<>>
    /\ calling' = FALSE
    /\ UNCHANGED <<origin, aborted, bb, inChain, ctx, tmp_body, entry, trusted, lost>>

\* Nothing to capture in this bucket.
PassOver ==
    /\ calling /\ bb # <<>>
    /\ ~cacheable \/ Head(bb).kind = "flush" \/ (Head(bb).kind = "data" /\ Head(bb).len = 0)
    /\ bb' = Tail(bb)
    /\ UNCHANGED <<origin, aborted, calling, inChain, ctx, tmp_body, entry, trusted, lost>>

AtData == calling /\ bb # <<>> /\ cacheable /\ Head(bb).kind = "data"
AtEOS  == calling /\ bb # <<>> /\ cacheable /\ Head(bb).kind = "eos"

Capture ==
    /\ AtData
    /\ Head(bb).len > 0
    /\ tmp_body' = tmp_body + Head(bb).len
    /\ body_len' = body_len + Head(bb).len
    /\ bb' = Tail(bb)
    /\ UNCHANGED <<origin, aborted, calling, inChain, started, cacheable, entry, trusted, lost>>

\* Mutant: the failed capture is dropped but its file stays.
GiveUpKeepsFile ==
    /\ AtData
    /\ cacheable' = FALSE
    /\ inChain' = FALSE
    /\ bb' = Tail(bb)
    /\ UNCHANGED <<origin, aborted, calling, started, body_len, tmp_body, entry, trusted, lost>>

\* Mutant: a failed write loses the bucket and the capture goes on.
CarryOn ==
    /\ AtData
    /\ bb' = Tail(bb)
    /\ UNCHANGED <<origin, aborted, calling, inChain, ctx, tmp_body, entry, trusted, lost>>

\* The write failed, or the read failed and left a length other than 0.
GiveUp ==
    /\ AtData
    /\ tmp_body' = NoLength
    /\ cacheable' = FALSE
    /\ inChain' = FALSE
    /\ bb' = Tail(bb)
    /\ UNCHANGED <<origin, aborted, calling, started, body_len, entry, trusted, lost>>

\* Mutant: the length is counted although nothing was written.
LoseBucketCounted ==
    /\ AtData
    /\ Head(bb).len > 0
    /\ lost' = TRUE
    /\ body_len' = body_len + Head(bb).len
    /\ bb' = Tail(bb)
    /\ UNCHANGED <<origin, aborted, calling, inChain, started, cacheable, tmp_body, entry, trusted>>

\* Mutant: the length is taken back although it was never counted.
LoseBucketUncounted ==
    /\ AtData
    /\ Head(bb).len > 0
    /\ lost' = TRUE
    /\ body_len' = body_len - Head(bb).len
    /\ bb' = Tail(bb)
    /\ UNCHANGED <<origin, aborted, calling, inChain, started, cacheable, tmp_body, entry, trusted>>

\* apr_bucket_read failed without setting len, which happened to be 0: the
\* capture goes on without the bucket.
LoseBucket ==
    /\ AtData
    /\ Head(bb).len > 0
    /\ lost' = TRUE
    /\ bb' = Tail(bb)
    /\ UNCHANGED <<origin, aborted, calling, inChain, ctx, tmp_body, entry, trusted>>

\* Mutant: any captured length up to the declared one passes.
CompleteUpTo == ~aborted /\ (declared # NoLength => body_len <= declared)

\* Mutant: a client that hung up is no reason not to publish.
CompleteDespiteAbort == declared \in {NoLength, body_len}

\* The response can be trusted to be whole, as far as finalize can tell.
Complete == ~aborted /\ declared \in {NoLength, body_len}

Check ==
    /\ AtEOS /\ ~trusted
    /\ Complete
    /\ trusted' = TRUE
    /\ UNCHANGED <<origin, aborted, bb, calling, inChain, ctx, tmp_body, entry, lost>>

\* The header is written and both files are renamed, whatever the client does
\* since the check.
Publish ==
    /\ AtEOS /\ trusted
    /\ entry' = tmp_body
    /\ tmp_body' = NoLength
    /\ trusted' = FALSE
    /\ bb' = Tail(bb)
    /\ UNCHANGED <<origin, aborted, calling, inChain, ctx, lost>>

\* Not complete, or the header could not be written, or a rename failed.
Discard ==
    /\ AtEOS
    /\ trusted \/ ~Complete
    /\ tmp_body' = NoLength
    /\ trusted' = FALSE
    /\ bb' = Tail(bb)
    /\ UNCHANGED <<origin, aborted, calling, inChain, ctx, entry, lost>>

\* The client hangs up.
Abort ==
    /\ ~aborted
    /\ aborted' = TRUE
    /\ UNCHANGED <<origin, bb, calling, inChain, ctx, tmp_body, entry, trusted, lost>>

\* The response has been sent and recorded; the request ends.
Ended ==
    /\ eos /\ bb = <<>> /\ ~calling
    /\ UNCHANGED vars

FilterStep ==
    \/ \E ok \in BOOLEAN : FirstCall(ok)
    \/ LaterCall \/ Unfiltered \/ PassOn
    \/ PassOver \/ Capture \/ GiveUp \/ LoseBucket \/ Check \/ Publish \/ Discard

Next ==
    \/ \E b \in {Flush, EOS} \cup {Data(n) : n \in Lengths} : Generate(b)
    \/ FilterStep
    \/ Abort
    \/ Ended

Spec == Init /\ [][Next]_vars

-----------------------------------------------------------------------------
(* Properties.                                                             *)

\* Every way out of the filter removes the temporary body or publishes it,
\* the one in the middle of a brigade included.
NoTempLeft == eos /\ bb = <<>> => tmp_body = NoLength

\* "Only publish a response we are confident is complete": a published body
\* is everything the generator sent, unless a bucket could not be read and
\* the response declared no length, or not its own.
PublishedIsWhole == entry # NoLength => entry = sent \/ (lost /\ declared # sent)

\* A response with a declared length is published at that length or not at
\* all, whatever was lost, and never before its end.
PublishedAsDeclared ==
    entry # NoLength => eos /\ declared \in {NoLength, entry}

\* The length check counts what was really written to the file.
CountIsFileSize == tmp_body # NoLength => body_len = tmp_body

\* "A client that hung up means the response may have been cut short": one that
\* the generator ended after the client had gone is never published, although
\* the client may also go after the check and before the renames, when the
\* response is whole and may be.
CutShortNotPublished == entry # NoLength => ~cut

-----------------------------------------------------------------------------
(* The inductive invariant behind them.                                    *)

\* n bytes and those of the buckets in s are total bytes.
AddsUp(n, s, total) ==
    \E off \in [0..Len(s) -> 0..total] :
        /\ off[0] = n /\ off[Len(s)] = total
        /\ \A i \in 1..Len(s) : off[i] = off[i - 1] + s[i].len

\* Only data has a length, and the EOS bucket is the last of its response.
WellFormed ==
    \A i \in DOMAIN bb :
        /\ bb[i].kind # "data" => bb[i].len = 0
        /\ bb[i].kind = "eos" => i = Len(bb) /\ eos

\* The end of the response is yet to come.
EndAhead == eos => bb # <<>> /\ bb[Len(bb)].kind = "eos"

BeforeFirstCall ==
    ~started =>
        /\ tmp_body = NoLength /\ entry = NoLength /\ body_len = 0
        /\ ~lost /\ ~cacheable /\ inChain /\ ~calling
        /\ AddsUp(0, bb, sent) /\ EndAhead

WhileCapturing ==
    tmp_body # NoLength =>
        /\ cacheable /\ body_len = tmp_body /\ entry = NoLength
        /\ ~lost => AddsUp(tmp_body, bb, sent)
        /\ EndAhead

AfterCapture ==
    /\ started => cacheable = inChain
    /\ cacheable /\ tmp_body = NoLength => eos /\ bb = <<>>
    /\ entry # NoLength =>
         /\ eos /\ bb = <<>> /\ tmp_body = NoLength
         /\ declared \in {NoLength, entry} /\ (entry = sent \/ lost)

\* Between the checks and the renames only the client can move.
Finalizing ==
    /\ cut => eos /\ aborted
    /\ trusted => /\ AtEOS /\ eos /\ ~cut
                  /\ declared \in {NoLength, body_len}
    /\ entry # NoLength => ~cut

\* What holds at every bucket of every brigade: until the end of the response
\* has passed, the file, what was lost and what is still in the brigade make
\* up what the generator has sent.
Captures  == TypeOK /\ WellFormed /\ BeforeFirstCall /\ WhileCapturing /\ AfterCapture
FilterInv == Captures /\ Finalizing
=============================================================================

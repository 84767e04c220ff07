------------------------------- MODULE Download -------------------------------
(***************************************************************************)
(* What a job downloads: the choices an analysis offers, the selector made *)
(* of the user's choice, the formats found when the job runs (which may be *)
(* others), the streams with their hooks, and the files at the end.        *)
(*                                                                         *)
(* yt-dlp is external: it takes the first alternative of the selector that *)
(* matches anything, calls the progress hook for every piece and the       *)
(* postprocessor hook around every postprocessor, starts a stream again,   *)
(* fails, and skips what match_filter refuses.  Abstracted: subtitles,     *)
(* extensions other than MP4/M4A, identities, times (a throttled update is *)
(* one with the number of the last one), and the moment between the check  *)
(* and the update of a hook (JobLifecycle).                                *)
(***************************************************************************)
EXTENDS Integers, FiniteSets, FiniteSetsExt, SequencesExt

CONSTANTS
    Formats,      \* records: id, height, video, audio, mp4
    Heights,      \* the resolutions build_choices knows
    ListHeights,  \* those build_playlist_choices offers
    MaxFormats,   \* settings.max_formats
    Items,        \* bound: the entries of a playlist
    Pieces,       \* bound: the pieces of a stream
    MaxBytes      \* settings.max_filesize_bytes, in pieces

ASSUME DownloadAssumption ==
    /\ IsFiniteSet(Formats)
    /\ \A f \in Formats : f.height \in Nat /\ {f.video, f.audio, f.mp4} \subseteq BOOLEAN
    /\ Heights \subseteq Nat \ {0} /\ ListHeights \subseteq Heights
    /\ {MaxFormats, Items, Pieces, MaxBytes} \subseteq Nat \ {0}

VARIABLES
    playlist,   \* the analysis was one of a playlist
    seen,       \* the formats the analysis found
    pick,       \* the choice of the job
    step,       \* where the worker is
    item,       \* the entry it works on
    current,    \* the formats this entry has now
    chosen,     \* the streams yt-dlp has selected
    todo,       \* those still to be fetched
    got,        \* the pieces on the disk, per file
    bytes,      \* ProgressReporter.bytes_by_file
    shown,      \* jobs.progress
    last,       \* ProgressReporter.last_progress
    status,     \* jobs.status
    cancel,     \* jobs.cancel_requested
    files,      \* the finished files in the work directory, with their sizes
    rows,       \* the artifacts: file, size, primary
    outcome,    \* how the download has ended
    warned      \* history: a check has found the cancel request

media == <<playlist, seen, pick>>
vars  == <<media, step, item, current, chosen, todo, got, bytes, shown, last,
           status, cancel, files, rows, outcome, warned>>

-----------------------------------------------------------------------------
(* Choices and selectors.                                                  *)

Videos(S)  == {f \in S : f.video}
Sounds(S)  == {f \in S : f.audio}
Upto(S, h) == {f \in S : f.height > 0 /\ f.height <= h}
Mp4s(S)    == {f \in S : f.mp4}

Video(policy, h, id) == [kind |-> "video", policy |-> policy, height |-> h, id |-> id]
Best       == Video("best", 0, "")
Limited(H) == {Video("resolution", h, "") : h \in H}
Exact(S)   == {Video("exact", f.height, f.id) : f \in S}
Audio      == [Best EXCEPT !.kind = "audio"]
Cover      == [Best EXCEPT !.kind = "thumbnail"]
Picks      == {Best, Audio, Cover} \cup Limited(Heights) \cup Exact(Videos(Formats))

\* normalize_formats: the best come first, those beyond the limit are dropped.
Rank(f) == IF f.video THEN 2 * f.height + (IF f.audio THEN 2 ELSE 1) ELSE 0
Kept(F) == {K \in SUBSET F : /\ Cardinality(K) = Min({Cardinality(F), MaxFormats})
                             /\ \A k \in K, f \in F \ K : Rank(k) >= Rank(f)}

\* build_choices: a resolution is offered when there is anything as high.
Offer(K, restricted, cover) ==
    UNION {{c \in {Best} \cup Exact(Videos(K)) : Videos(K) # {} /\ ~restricted},
           {c \in Limited(Heights) : ~restricted /\ \E f \in Videos(K) : f.height >= c.height},
           {c \in {Audio} : Sounds(K) # {} /\ ~restricted},
           {c \in {Cover} : cover}}

ListOffer(cover) == {Best, Audio} \cup Limited(ListHeights) \cup {c \in {Cover} : cover}

\* yt-dlp: "ba" wants sound alone, "b" both in one, or whatever there is where
\* all formats are of one kind; of two sounds the second is dropped.
OnlySound(S) == Sounds(S) \ Videos(S)
Single(S, C) ==
    LET both  == Videos(S) \cap Sounds(S)
        alike == OnlySound(C) = C \/ Sounds(C) = {}
    IN {{f} : f \in IF both = {} /\ alike THEN S ELSE both}
Merged(V, A) == {IF v.audio THEN {v} ELSE {v, a} : v \in V, a \in A}

\* Mutant: the limit is forgotten in the alternative without MP4.
SelectUptoForgetful(L, C) ==
    <<Merged(Mp4s(Videos(L)), Mp4s(OnlySound(C))), Single(Mp4s(L), C),
      Merged(Videos(C), OnlySound(C)), Single(L, C), Single(C, C)>>

\* A resolution: MP4 below it, anything below it, and in the end anything.
SelectUpto(L, C) ==
    <<Merged(Mp4s(Videos(L)), Mp4s(OnlySound(C))), Single(Mp4s(L), C),
      Merged(Videos(L), OnlySound(C)), Single(L, C), Single(C, C)>>

\* video_selector, and "ba/b" for audio: the alternatives in their order.
Selector(c, C) ==
    LET A == OnlySound(C)  E == {f \in C : f.id = c.id} IN
    CASE c.kind = "audio" -> <<{{a} : a \in A}, Single(C, C)>>
      [] c.kind = "video" /\ c.policy = "best" ->
           <<Merged(Mp4s(Videos(C)), Mp4s(A)), Single(Mp4s(C), C),
             Merged(Videos(C), A), Single(C, C)>>
      [] c.policy = "resolution" -> SelectUpto(Upto(C, c.height), C)
      [] c.policy = "exact" -> <<Merged(E, A \cup Sounds(E)), {{f} : f \in E}>>

Selected(c, C) ==
    LET n == SelectInSeq(Selector(c, C), LAMBDA s : s # {})
    IN IF n = 0 THEN {} ELSE Selector(c, C)[n]

-----------------------------------------------------------------------------
Count   == IF playlist THEN Items ELSE 1
Parts   == (1 .. Items) \X Formats
Total(f) == FoldFunction(+, 0, f)
Active  == {"running", "postprocessing", "cancelling"}

TypeOK ==
    /\ playlist \in BOOLEAN /\ seen \subseteq Formats /\ pick \in Picks
    /\ step \in {"choose", "start", "item", "nomatch", "stream", "broken", "post",
                 "after", "finalize", "done"}
    /\ item \in 1 .. Items
    /\ current \subseteq Formats /\ chosen \subseteq current /\ todo \subseteq chosen
    /\ got \in [Parts -> 0 .. Pieces] /\ bytes \in [Parts -> 0 .. Pieces]
    /\ shown \in 0 .. 100 /\ last \in -1 .. 100
    /\ status \in Active /\ cancel \in BOOLEAN /\ warned \in BOOLEAN
    /\ files \in [1 .. Items -> Nat]
    /\ rows \subseteq [file : 0 .. Items, size : Nat, primary : BOOLEAN]
    /\ outcome \in {"none", "cancelled", "limit", "failed", "error", "empty", "delivered"}
    /\ outcome = "delivered" <=> Cardinality({r \in rows : r.primary}) = 1

Init ==
    /\ playlist \in BOOLEAN /\ seen \in SUBSET Formats /\ (playlist => seen = {})
    /\ pick = Best /\ step = "choose" /\ item = 1
    /\ current = {} /\ chosen = {} /\ todo = {}
    /\ got = [p \in Parts |-> 0] /\ bytes = got
    /\ shown = 0 /\ last = -1 /\ status = "running" /\ cancel = FALSE
    /\ files = [i \in 1 .. Items |-> 0] /\ rows = {} /\ outcome = "none" /\ warned = FALSE

\* create_job: one of the choices that were offered.
Choose ==
    /\ step = "choose" /\ step' = "start"
    /\ \E cover \in BOOLEAN :
         IF playlist THEN pick' \in ListOffer(cover)
         ELSE \E K \in Kept(seen), restricted \in BOOLEAN : pick' \in Offer(K, restricted, cover)
    /\ UNCHANGED <<playlist, seen, item, current, chosen, todo, got, bytes, shown, last,
                   status, cancel, files, rows, outcome, warned>>

\* request_cancel, at any time.
RequestCancel ==
    /\ step \notin {"choose", "done"} /\ ~cancel
    /\ cancel' = TRUE /\ status' = "cancelling"
    /\ UNCHANGED <<media, step, item, current, chosen, todo, got, bytes, shown, last,
                   files, rows, outcome, warned>>

End(o) == step' = "done" /\ outcome' = o

\* Everywhere but in the filter a check that finds the request raises, in the
\* handler of DownloadError as well (but in no other handler).
NoticeCancel ==
    /\ step \in {"start", "nomatch", "stream", "broken", "post", "after"} /\ cancel
    /\ End("cancelled") /\ warned' = TRUE
    /\ UNCHANGED <<media, item, current, chosen, todo, got, bytes, shown, last,
                   status, cancel, files, rows>>

Begin ==
    /\ step = "start" /\ ~cancel /\ step' = "item"
    /\ UNCHANGED <<media, item, current, chosen, todo, got, bytes, shown, last,
                   status, cancel, files, rows, outcome, warned>>

\* The disk is nearly full, or yt-dlp has raised DownloadError.
Fail ==
    /\ step \in {"start", "nomatch", "broken"} /\ ~cancel
    /\ End("failed")
    /\ UNCHANGED <<media, item, current, chosen, todo, got, bytes, shown, last,
                   status, cancel, files, rows, warned>>

\* Any other exception, of yt-dlp, a hook, a query or the file system, passes
\* through download up to run_job's last clause: INTERNAL_ERROR, whatever the flag.
OtherError ==
    /\ step \notin {"choose", "done"} /\ End("error")
    /\ UNCHANGED <<media, item, current, chosen, todo, got, bytes, shown, last,
                   status, cancel, files, rows, warned>>

NextItem ==
    IF item < Count THEN step' = "item" /\ item' = item + 1
                    ELSE step' = "after" /\ item' = item

\* match_filter refuses: yt-dlp goes on without a word.
Refuse(C, barred) ==
    /\ step = "item" /\ NextItem
    /\ \/ cancel \/ barred
       \/ pick.policy = "exact" /\ pick.id \notin {f.id : f \in C}
    /\ warned' = (warned \/ cancel)
    /\ UNCHANGED <<media, current, chosen, todo, got, bytes, shown, last,
                   status, cancel, files, rows, outcome>>

SelectNone(C) ==
    /\ step = "item" /\ ~cancel /\ pick # Cover /\ Selected(pick, C) = {}
    /\ step' = "nomatch" /\ current' = C /\ chosen' = {} /\ todo' = {}
    /\ UNCHANGED <<media, item, got, bytes, shown, last, status, cancel, files, rows,
                   outcome, warned>>

Select(C) ==
    /\ step = "item" /\ ~cancel /\ step' = "stream" /\ current' = C
    /\ pick.policy = "exact" => pick.id \in {f.id : f \in C}
    /\ pick # Cover /\ chosen' \in Selected(pick, C) /\ todo' = chosen'
    /\ UNCHANGED <<media, item, got, bytes, shown, last, status, cancel, files, rows,
                   outcome, warned>>

\* skip_download: there is nothing to fetch but the picture.
SelectCover ==
    /\ step = "item" /\ ~cancel /\ step' = "post" /\ pick = Cover
    /\ current' = {} /\ chosen' = {} /\ todo' = {}
    /\ UNCHANGED <<media, item, got, bytes, shown, last, status, cancel, files, rows,
                   outcome, warned>>

-----------------------------------------------------------------------------
(* The streams and their hooks.                                            *)

Part(f) == <<item, f>>

\* Streams are fetched one after the other.
Fetching(f) == step = "stream" /\ f \in todo /\ \A g \in todo \ {f} : got[Part(g)] = 0

\* Mutant: only the stream that is being fetched counts.
HeardCurrentOnly(f, n) == [p \in Parts |-> IF p = Part(f) THEN n ELSE 0]

\* bytes_by_file: what has been heard of a file is not forgotten when it starts again.
Heard(f, n) == [bytes EXCEPT ![Part(f)] = Max({@, n})]

\* Mutant: the last percents are not kept for what comes after the streams.
NumberUncapped(share) == (100 * ((item - 1) * Pieces + share)) \div (Count * Pieces)

\* The percentage, of the entries of a playlist taken together.
Number(share) == (94 * ((item - 1) * Pieces + share)) \div (Count * Pieces)

\* update_job_progress.
Write(p) == shown' = IF status \in Active THEN p ELSE shown

\* A piece arrives and progress_hook ("downloading") writes, or holds back what it
\* has written last.  The share of the stream is an estimate, zero if unknown.
Piece(f, share) ==
    /\ Fetching(f) /\ ~cancel /\ got[Part(f)] < Pieces
    /\ LET n == got[Part(f)] + 1 IN
       /\ Total(Heard(f, n)) <= MaxBytes
       /\ got' = [got EXCEPT ![Part(f)] = n] /\ bytes' = Heard(f, n)
       /\ \/ Write(Number(share)) /\ last' = Number(share)
          \/ last = Number(share) /\ UNCHANGED <<shown, last>>
    /\ UNCHANGED <<media, step, item, current, chosen, todo, status, cancel, files, rows,
                   outcome, warned>>

PieceTooMuch(f) ==
    /\ Fetching(f) /\ ~cancel /\ got[Part(f)] < Pieces
    /\ LET n == got[Part(f)] + 1 IN
       /\ Total(Heard(f, n)) > MaxBytes
       /\ got' = [got EXCEPT ![Part(f)] = n] /\ bytes' = Heard(f, n)
    /\ End("limit")
    /\ UNCHANGED <<media, item, current, chosen, todo, shown, last, status, cancel, files,
                   rows, warned>>

\* A stream that cannot be resumed starts again.
Restart(f) ==
    /\ Fetching(f) /\ got[Part(f)] > 0
    /\ got' = [got EXCEPT ![Part(f)] = 0]
    /\ UNCHANGED <<media, step, item, current, chosen, todo, bytes, shown, last, status,
                   cancel, files, rows, outcome, warned>>

\* progress_hook ("finished") and set_job_postprocessing, which leaves a job alone
\* that is there already: the number stays with a second stream.
Finish(f) ==
    /\ Fetching(f) /\ ~cancel /\ got[Part(f)] > 0
    /\ todo' = todo \ {f} /\ step' = IF todo' = {} THEN "post" ELSE "stream"
    /\ status' = "postprocessing"
    /\ shown' = IF status = "postprocessing" THEN shown ELSE Max({shown, 95})
    /\ last' = 94
    /\ UNCHANGED <<media, item, current, chosen, got, bytes, cancel, files, rows,
                   outcome, warned>>

\* The extraction, the network or a postprocessor fails, with DownloadError.
Break ==
    /\ step \in {"item", "stream", "post"} /\ step' = "broken"
    /\ UNCHANGED <<media, item, current, chosen, todo, got, bytes, shown, last, status,
                   cancel, files, rows, outcome, warned>>

\* postprocessor_hook, for each of the postprocessors.
Postprocess ==
    /\ step = "post" /\ ~cancel /\ (Write(96) \/ Write(98))
    /\ UNCHANGED <<media, step, item, current, chosen, todo, got, bytes, last, status,
                   cancel, files, rows, outcome, warned>>

\* The file of the entry is there, merged, converted or as it came.
Produce(size) ==
    /\ step = "post" /\ NextItem
    /\ size > 0 /\ files' = [files EXCEPT ![item] = size]
    /\ current' = {} /\ chosen' = {} /\ todo' = {}
    /\ UNCHANGED <<media, got, bytes, shown, last, status, cancel, rows, outcome, warned>>

-----------------------------------------------------------------------------
(* The end of the download.                                                *)

\* Mutant: the request is not looked at again when yt-dlp returns.
AfterBlind ==
    /\ step = "after" /\ step' = "finalize" /\ Write(98)
    /\ UNCHANGED <<media, item, current, chosen, todo, got, bytes, last, status, cancel,
                   files, rows, outcome, warned>>

\* yt-dlp returns and nobody has asked for an end.
After ==
    /\ step = "after" /\ ~cancel /\ step' = "finalize" /\ Write(98)
    /\ UNCHANGED <<media, item, current, chosen, todo, got, bytes, last, status, cancel,
                   files, rows, outcome, warned>>

Made == {i \in DOMAIN files : files[i] > 0}

NoArtifact ==
    /\ step = "finalize" /\ Made = {} /\ End("empty")
    /\ UNCHANGED <<media, item, current, chosen, todo, got, bytes, shown, last, status,
                   cancel, files, rows, warned>>

TooLarge ==
    /\ step = "finalize" /\ Total(files) > MaxBytes /\ End("limit")
    /\ UNCHANGED <<media, item, current, chosen, todo, got, bytes, shown, last, status,
                   cancel, files, rows, warned>>

\* Mutant: the members of an archive keep a primary of their own.
RecordsTwoFirst(zip, first) ==
    {[file |-> i, size |-> files[i], primary |-> i = first] : i \in Made}
        \cup {[file |-> 0, size |-> Total(files), primary |-> TRUE] : z \in zip}

\* The rows: an archive of several entries comes first, else the largest file.
Records(zip, first) ==
    {[file |-> i, size |-> files[i], primary |-> zip = {} /\ i = first] : i \in Made}
        \cup {[file |-> 0, size |-> Total(files), primary |-> TRUE] : z \in zip}

\* _finalize_artifacts: moves the files, packs a playlist's and adds the rows.
Finalize(first) ==
    /\ step = "finalize" /\ Total(files) <= MaxBytes
    /\ first \in Made /\ \A i \in Made : files[first] >= files[i]
    /\ rows' = Records(IF playlist /\ Cardinality(Made) > 1 THEN {0} ELSE {}, first)
    /\ End("delivered")
    /\ UNCHANGED <<media, item, current, chosen, todo, got, bytes, shown, last, status,
                   cancel, files, warned>>

-----------------------------------------------------------------------------
Next ==
    \/ Choose \/ RequestCancel \/ NoticeCancel \/ Begin \/ Fail \/ OtherError
    \/ \E C \in SUBSET Formats :
         SelectNone(C) \/ Select(C) \/ \E barred \in BOOLEAN : Refuse(C, barred)
    \/ SelectCover \/ Break \/ Postprocess
    \/ \E f \in Formats :
         \/ \E share \in 0 .. Pieces : Piece(f, share)
         \/ PieceTooMuch(f) \/ Restart(f) \/ Finish(f)
    \/ \E size \in 1 .. MaxBytes + 1 : Produce(size)
    \/ After \/ NoArtifact \/ TooLarge \/ \E first \in 1 .. Items : Finalize(first)

Spec == Init /\ [][Next]_vars

-----------------------------------------------------------------------------
(***************************************************************************)
(* Properties.                                                             *)
(***************************************************************************)
\* The media has a picture with sound (or all there is) below the limit.
CompleteUpto(L, C) ==
    \/ Single(L, C) # {}
    \/ Videos(L) # {} /\ OnlySound(C) # {}

\* What is fetched is what was picked: the format itself, a height within the
\* limit unless nothing complete is as low, and sound wherever there is any.  A
\* choice that was offered can be fetched while the media stays as it was, with
\* the same exception.  The order of the alternatives, the two looks at the
\* formats and the heights that are offered have to fit together for it.
PickHonoured ==
    LET L == Upto(current, pick.height) IN
    /\ chosen # {} =>
         /\ pick.policy = "exact" => \E f \in chosen : f.id = pick.id
         /\ pick.policy = "resolution" /\ CompleteUpto(L, current) =>
              Videos(chosen) \subseteq L
         /\ pick.policy # "exact" /\ Sounds(current) # {} => Sounds(chosen) # {}
    /\ step = "nomatch" /\ ~playlist /\ current = seen =>
         pick.policy = "resolution" /\ ~CompleteUpto(L, current)

\* The streams of a job never take more than the limit and a piece, over all
\* entries and however often one starts again; what is published never more
\* than twice the limit, an archive and its members.
BudgetHolds ==
    /\ Total(got) <= MaxBytes + 1
    /\ FoldSet(LAMBDA r, n : n + r.size, 0, rows) <= 2 * MaxBytes

\* After a check has found the request (the filter, which only skips the entry, as
\* well) nothing is delivered, and the job is not recorded as a failure of the media
\* nor as empty.  It ends as cancelled unless an exception that yt-dlp does not turn
\* into DownloadError comes first, which ends it as INTERNAL_ERROR.
SeenCancelEnds == step = "done" /\ warned => outcome \in {"cancelled", "error"}

\* Of a single media a number of 96 and more is not shown while a stream is still
\* to come, and one of 95 not before a stream is there.  (With two streams 95 is
\* shown, and taken back, with the second one to come; with playlists 98 is.)
LateNumbersTrue ==
    ~playlist => /\ shown >= 95 => todo # chosen \/ chosen = {}
                 /\ shown >= 96 => todo = {}

===============================================================================

------------------------------- MODULE ProofFiles -------------------------------
(***************************************************************************)
(* Proofs of milestones on IPFS.  The zone a file is dropped on and its    *)
(* uploads, which overlap when a file is dropped during one; and the       *)
(* viewers of what was uploaded, which fetch from one gateway after the    *)
(* other into a cache that all of them share.                              *)
(***************************************************************************)
EXTENDS Naturals, SequencesExt, FiniteSets

CONSTANTS
    Images, Papers,     \* files that can be picked: images, and the others that are accepted
    Uploading,          \* calls of upload(), numbered as they are made
    Content,            \* what a CID stands for: its type, and whether its bytes look like Markdown
    Viewer,             \* instances of useIPFSContent()
    Download,           \* fetches of contents, numbered as they are begun
    Gateways,           \* IPFS_GATEWAYS, in their order
    MaxPicks, MaxLooks  \* bounds: files picked, changes of what the viewers show

ASSUME ProofFilesAssumption ==
    /\ {MaxPicks, MaxLooks} \cup Uploading \cup Download \subseteq Nat /\ 0 \notin Images \cup Papers
    /\ \A c \in DOMAIN Content : Content[c].marked \in BOOLEAN
    /\ Gateways \in Seq(Nat \ {0}) /\ IsInjective(Gateways)

VARIABLES
    zone,             \* state, file, preview (the number of an object URL), cid
    upload,           \* each call: its file, and whether it is idle, under way or done
    cancelledUpload,  \* FileUpload's cancelledRef
    urls,             \* object URLs that are not revoked
    urlRef,           \* previewUrlRef
    lightbox,         \* the dialog of files is open
    picks,            \* files picked so far; numbers the URLs
    options,          \* the props: autoUpload
    mounted,          \* the zone is on the page
    viewer,           \* each hook: cid, shown (0 when nothing), loading, failed
    cancelledView,    \* each hook's cancelledRef
    cache,            \* contentCache
    download,         \* each fetch: at, its viewer and CID, gateways in order, those asked
    fastest,          \* fastestGateway, 0 until it is detected
    looks             \* changes of the viewers so far

zoneVars == <<zone, upload, cancelledUpload, urls, urlRef, lightbox, picks, options, mounted>>
viewVars == <<viewer, cancelledView, cache, download, fastest, looks>>
fileVars == <<zoneVars, viewVars>>

Files == Images \cup Papers
\* Pinata names a file by what it holds.
CidOf(file) == file

-----------------------------------------------------------------------------
(* FileUpload *)

EmptyZone == [state |-> "idle", file |-> 0, preview |-> 0, cid |-> 0]
\* upload() of useIPFS(), whose own state the zone does not use.
SendFile(u, file) == upload' = [upload EXCEPT ![u] = [at |-> "sent", file |-> file]]

\* doUpload(): only the first call of handleReset() after it cancels it.
DoUpload(file, z) ==
    \E u \in Uploading :
        /\ upload[u].at = "idle" /\ \A w \in Uploading : w < u => upload[w].at # "idle"
        /\ SendFile(u, file)
        /\ cancelledUpload' = FALSE
        /\ zone' = [z EXCEPT !.state = "uploading"]

OpenPicker ==
    /\ mounted /\ ~lightbox /\ zone.state \notin {"uploading", "done"}
    /\ lightbox' = TRUE
    /\ UNCHANGED <<zone, upload, cancelledUpload, urls, urlRef, picks, options, mounted>>
\* A file is dropped, whatever the zone shows, or chosen in the dialog, whatever
\* happened since it was opened; one that is too large or of another type only
\* changes the state.
Picked ==
    /\ mounted /\ picks < MaxPicks /\ picks' = picks + 1
    /\ lightbox' \in {lightbox, FALSE}
RejectFile ==
    /\ Picked
    /\ zone' = [zone EXCEPT !.state = "error"]
    /\ UNCHANGED <<upload, cancelledUpload, urls, urlRef, options, mounted>>
HandleFile(file) ==
    /\ Picked
    /\ urls' = (urls \ {urlRef}) \cup (IF file \in Images THEN {picks'} ELSE {})
    /\ urlRef' = IF file \in Images THEN picks' ELSE urlRef
    /\ LET z == [zone EXCEPT !.file = file, !.preview = IF file \in Images THEN picks' ELSE 0] IN
       IF options.autoUpload
       THEN DoUpload(file, z)
       ELSE zone' = [z EXCEPT !.state = "selected"] /\ UNCHANGED <<upload, cancelledUpload>>
    /\ UNCHANGED <<options, mounted>>
UploadToIPFS ==
    /\ mounted /\ zone.state = "selected" /\ zone.file # 0
    /\ DoUpload(zone.file, zone)
    /\ UNCHANGED <<urls, urlRef, picks, lightbox, options, mounted>>

DragOver ==
    /\ mounted /\ zone.state \in {"idle", "selected", "error"}
    /\ zone' = [zone EXCEPT !.state = "dragover"]
    /\ UNCHANGED <<upload, cancelledUpload, urls, urlRef, picks, lightbox, options, mounted>>
DragLeave ==
    /\ mounted /\ zone.state = "dragover"
    /\ zone' = [zone EXCEPT !.state = "idle"]
    /\ UNCHANGED <<upload, cancelledUpload, urls, urlRef, picks, lightbox, options, mounted>>

\* Remove, Cancel and Replace
HandleReset ==
    /\ mounted /\ zone.state \in {"selected", "uploading", "done"}
    /\ zone.state = "selected" => zone.file # 0
    /\ cancelledUpload' = TRUE
    /\ urls' = urls \ {urlRef} /\ urlRef' = 0
    /\ zone' = EmptyZone
    /\ UNCHANGED <<upload, picks, lightbox, options, mounted>>
TryAgain ==
    /\ mounted /\ zone.state = "error"
    /\ zone' = [zone EXCEPT !.state = "idle", !.file = 0, !.preview = 0]
    /\ UNCHANGED <<upload, cancelledUpload, urls, urlRef, picks, lightbox, options, mounted>>
LeaveZone ==
    /\ mounted
    /\ mounted' = FALSE /\ lightbox' = FALSE /\ urls' = urls \ {urlRef} /\ zone' = EmptyZone
    /\ UNCHANGED <<upload, cancelledUpload, urlRef, picks, options>>

UploadEnds(u, z) ==
    /\ upload[u].at = "sent"
    /\ upload' = [upload EXCEPT ![u].at = "done"]
    /\ zone' = IF cancelledUpload \/ ~mounted THEN zone ELSE z
    /\ UNCHANGED <<cancelledUpload, urls, urlRef, picks, lightbox, options, mounted>>
UploadAnswers(u) ==
    UploadEnds(u, [zone EXCEPT !.cid = CidOf(upload[u].file), !.state = "done"])
UploadFails(u) == UploadEnds(u, [zone EXCEPT !.state = "error"])

-----------------------------------------------------------------------------
(* useIPFSContent() and the gateways *)

Textual(c) == Content[c].type \in {"markdown", "plain", "json"}
\* The text of what is not text is not read.
TextIsMarked(c) == Textual(c) /\ Content[c].marked

\* The order of a fetch: the gateway found fastest, then the others.
OrderedGateways ==
    IF fastest # 0 /\ fastest # Gateways[1]
    THEN <<fastest>> \o RemoveFirst(Gateways, fastest)
    ELSE Gateways
DetectFastestGateway(g) ==
    /\ fastest = 0 /\ fastest' = g
    /\ UNCHANGED <<viewer, cancelledView, cache, download, looks>>

\* The effect of a hook: its cleanup cancels, and it asks what is not in the cache.
Look(v, cid) ==
    IF cid = 0
    THEN /\ viewer' = [viewer EXCEPT ![v].cid = 0]
         /\ cancelledView' = [cancelledView EXCEPT ![v] = TRUE]
         /\ UNCHANGED download
    ELSE IF cid \in DOMAIN cache
    THEN /\ viewer' = [viewer EXCEPT ![v] =
                          [cid |-> cid, shown |-> cache[cid], loading |-> FALSE, failed |-> FALSE]]
         /\ cancelledView' = [cancelledView EXCEPT ![v] = TRUE]
         /\ UNCHANGED download
    ELSE /\ viewer' = [viewer EXCEPT ![v] =
                          [cid |-> cid, shown |-> 0, loading |-> TRUE, failed |-> FALSE]]
         /\ cancelledView' = [cancelledView EXCEPT ![v] = FALSE]
         /\ \E d \in Download :
               /\ download[d].at = "idle" /\ \A e \in Download : e < d => download[e].at # "idle"
               /\ download' = [download EXCEPT ![d] =
                     [at |-> "asking", viewer |-> v, cid |-> cid, left |-> OrderedGateways, asked |-> <<>>]]
ChangeCid(v, cid) ==
    /\ looks < MaxLooks /\ cid # viewer[v].cid
    /\ looks' = looks + 1
    /\ Look(v, cid)
    /\ UNCHANGED <<cache, fastest>>

\* What ProofViewer shows of a CID; before the first answer it takes it for a hash.
Display(v) ==
    CASE viewer[v].loading -> "skeleton"
      [] ~viewer[v].loading /\ viewer[v].failed -> "unavailable"
      [] OTHER -> IF viewer[v].shown # 0 THEN "content" ELSE "hash"
Renderings(c) ==
    {r \in {"markdown", "plain", "image", "pdf"} :
        \/ r = "markdown" /\ (Content[c].type = "markdown" \/ TextIsMarked(c))
        \/ r = "plain" /\ Content[c].type = "plain" /\ ~TextIsMarked(c)
        \/ r \in {"image", "pdf"} /\ Content[c].type = r}
ShownProof(c) == IF Renderings(c) = {} THEN {"unknown"} ELSE Renderings(c)
Retry(v) ==
    /\ looks < MaxLooks /\ viewer[v].cid # 0 /\ Display(v) = "unavailable"
    /\ looks' = looks + 1
    /\ Look(v, viewer[v].cid)
    /\ UNCHANGED <<cache, fastest>>

\* A gateway that answers anything but 200, or nothing, leaves the turn to the next.
AskGateway(d) ==
    /\ download[d].at = "asking" /\ download[d].left # <<>>
    /\ \E ok \in BOOLEAN :
          download' = [download EXCEPT ![d].asked = Append(@, Head(download[d].left)),
                                       ![d].left = Tail(@), ![d].at = IF ok THEN "reading" ELSE @]
    /\ UNCHANGED <<viewer, cancelledView, cache, fastest, looks>>
\* The text of the answer is read, and kept under the CID that was asked.
ReadContent(d) ==
    /\ download[d].at = "reading"
    /\ download' = [download EXCEPT ![d].at = "done"]
    /\ LET v == download[d].viewer c == download[d].cid IN
       IF cancelledView[v] THEN UNCHANGED <<viewer, cache>>
       ELSE /\ cache' = [k \in DOMAIN cache \cup {c} |-> IF k = c THEN c ELSE cache[k]]
            /\ viewer' = [viewer EXCEPT ![v].shown = c, ![v].loading = FALSE]
    /\ UNCHANGED <<cancelledView, fastest, looks>>
\* No gateway is left, or the answer breaks off while it is read.
DownloadFails(d) ==
    /\ \/ download[d].at = "asking" /\ download[d].left = <<>>
       \/ download[d].at = "reading" /\ Textual(download[d].cid)
    /\ download' = [download EXCEPT ![d].at =
                       IF download[d].at = "asking" THEN "refused" ELSE "broken"]
    /\ viewer' = IF cancelledView[download[d].viewer] THEN viewer
                 ELSE [viewer EXCEPT ![download[d].viewer].failed = TRUE,
                                     ![download[d].viewer].loading = FALSE]
    /\ UNCHANGED <<cancelledView, cache, fastest, looks>>

-----------------------------------------------------------------------------

ZoneInit ==
    /\ zone = EmptyZone /\ cancelledUpload = FALSE
    /\ upload = [u \in Uploading |-> [at |-> "idle", file |-> 0]]
    /\ urls = {} /\ urlRef = 0 /\ picks = 0 /\ lightbox = FALSE /\ mounted = TRUE
    /\ options \in [autoUpload : BOOLEAN]
ViewInit ==
    /\ viewer = [v \in Viewer |-> [cid |-> 0, shown |-> 0, loading |-> FALSE, failed |-> FALSE]]
    /\ cancelledView = [v \in Viewer |-> FALSE]
    /\ cache = <<>> /\ fastest = 0 /\ looks = 0
    /\ download = [d \in Download |->
                      [at |-> "idle", viewer |-> 0, cid |-> 0, left |-> <<>>, asked |-> <<>>]]

ZoneNext ==
    \/ OpenPicker \/ RejectFile \/ \E f \in Files : HandleFile(f)
    \/ UploadToIPFS \/ DragOver \/ DragLeave \/ HandleReset \/ TryAgain \/ LeaveZone
    \/ \E u \in Uploading : UploadAnswers(u) \/ UploadFails(u)
ViewNext ==
    \/ \E g \in ToSet(Gateways) : DetectFastestGateway(g)
    \/ \E v \in Viewer : Retry(v) \/ \E c \in {0} \cup DOMAIN Content : ChangeCid(v, c)
    \/ \E d \in Download : AskGateway(d) \/ ReadContent(d) \/ DownloadFails(d)

-----------------------------------------------------------------------------

\* Files replaced, refused, cancelled and left behind: at most one object URL is
\* alive, it is the one the zone can revoke, and a preview is never a revoked one.
UrlsAreReleased ==
    /\ urls \subseteq {urlRef}
    /\ mounted /\ zone.preview # 0 => zone.preview \in urls
    /\ ~mounted => urls = {}

\* However uploads overlap and are cancelled: a bar that says "Uploading" belongs
\* to an upload that is under way and will be heard, so that it ends.
BarEnds ==
    zone.state = "uploading" =>
        ~cancelledUpload /\ \E u \in Uploading : upload[u].at = "sent"

\* However fetches of several viewers overlap: the cache holds under a CID what the
\* CID stands for, a skeleton belongs to a fetch that will be heard, and a fetch
\* is refused only after every gateway was asked once.
CacheIsOwn == \A c \in DOMAIN cache : cache[c] = c
SkeletonEnds ==
    \A v \in Viewer :
        viewer[v].cid # 0 /\ Display(v) = "skeleton" =>
            ~cancelledView[v]
            /\ \E d \in Download : download[d].viewer = v /\ download[d].at \in {"asking", "reading"}
EveryGatewayIsAsked ==
    \A d \in Download :
        download[d].at = "refused" =>
            /\ Len(download[d].asked) = Len(Gateways)
            /\ ToSet(download[d].asked) = ToSet(Gateways)
\* What is shown of a content is shown one way.
ShownOneWay ==
    \A v \in Viewer : Display(v) = "content" => Cardinality(ShownProof(viewer[v].shown)) = 1

\* Uploads and viewers show, keep and release what is theirs (FileUpload.tsx, useIPFSContent.ts).
ProofFilesAreSound ==
    UrlsAreReleased /\ BarEnds /\ CacheIsOwn /\ SkeletonEnds /\ EveryGatewayIsAsked /\ ShownOneWay
=============================================================================

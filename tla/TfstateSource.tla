--------------------------- MODULE TfstateSource ---------------------------
(***************************************************************************)
(* The tfstate source of src/pkg/providers/aws/s3/tfstate_source.go, and   *)
(* the bucket it polls.                                                    *)
(*                                                                         *)
(* GetTfstate pages through a listing of the bucket.  For each page it     *)
(* takes the Name of the output, which is the name of the bucket and not   *)
(* of an object, so that a poll looks at one object, the one that is named *)
(* like its bucket, once for each page.  It asks for its head, and if the  *)
(* etag is not the one it remembers it downloads and decodes the object,   *)
(* which may have been written in between.                                 *)
(***************************************************************************)
EXTENDS Naturals, Sequences

CONSTANTS Contents,   \* what may be written to the object; equal contents
                      \* have equal etags
          Malformed,  \* the contents that json.Unmarshal refuses
          Size,       \* Size[c]: the length of content c
          None,       \* no object, no etag
          MaxPages,   \* bound on the pages of a listing
          MaxWrites   \* bound on the writes of the object

ASSUME SourceAssumption ==
  /\ Malformed \subseteq Contents
  /\ Size \in [Contents -> Nat]
  /\ None \notin Contents
  /\ MaxPages \in Nat \ {0}
  /\ MaxWrites \in Nat

Object == [version : 0 .. MaxWrites, content : Contents \cup {None}]

VARIABLES
  suffix,     \* the name of the bucket ends in .tfstate
  object,     \* the object; its version counts the writes, and is not visible
  reverted,   \* a content was written that the object had before
  written,    \* the contents that the object had
  etag,       \* the remembered etag
  tfstate,    \* the remembered tfstate: the object it was decoded from
  pc,         \* control point of GetTfstate, or "idle" between the polls
  pages,      \* the pages seen in this poll
  head,       \* the object when its head was asked for
  body,       \* the object when it was downloaded
  tfstates,   \* what this poll collected
  needUpdate, \* this poll downloaded something
  delivered   \* the last tfstate that a poll returned

bucketVars == <<suffix, object, reverted, written>>
cacheVars == <<etag, tfstate>>
pollVars == <<pc, pages, head, body, tfstates, needUpdate>>
vars == <<bucketVars, cacheVars, pollVars, delivered>>

NoObject == [version |-> 0, content |-> None]

Init ==
  /\ suffix \in BOOLEAN
  /\ object = NoObject
  /\ reverted = FALSE
  /\ written = {}
  /\ etag = None /\ tfstate = NoObject
  /\ pc = "idle" /\ pages = 0 /\ head = NoObject /\ body = NoObject
  /\ tfstates = <<>> /\ needUpdate = FALSE
  /\ delivered = NoObject

-----------------------------------------------------------------------------
(* The bucket: Terraform writes a state, and may remove it.                *)

Write(c) ==
  /\ object.version < MaxWrites
  /\ c # object.content
  /\ object' = [version |-> object.version + 1, content |-> c]
  /\ reverted' = (reverted \/ c \in written)
  /\ written' = written \cup {c}
  /\ UNCHANGED <<suffix, cacheVars, pollVars, delivered>>

Delete ==
  /\ object.content # None
  /\ object' = [object EXCEPT !.content = None]
  /\ UNCHANGED <<suffix, reverted, written, cacheVars, pollVars, delivered>>

-----------------------------------------------------------------------------
(* GetTfstate                                                              *)

StartPoll ==
  /\ pc = "idle"
  /\ pc' = "list"
  /\ pages' = 0 /\ tfstates' = <<>> /\ needUpdate' = FALSE
  /\ UNCHANGED <<bucketVars, cacheVars, head, body, delivered>>

(* With a role each poll asks for temporary credentials, and a refusal is  *)
(* no error of the poll but a panic.                                       *)
AssumeRoleFails ==
  /\ pc = "idle"
  /\ pc' = "panicked"
  /\ UNCHANGED <<bucketVars, cacheVars, pages, head, body, tfstates, needUpdate,
                 delivered>>

NextPage ==
  /\ pc = "list" /\ pages < MaxPages
  /\ pages' = pages + 1
  /\ pc' = IF suffix THEN "head" ELSE "list"
  /\ UNCHANGED <<bucketVars, cacheVars, head, body, tfstates, needUpdate, delivered>>

(* The remembered etag: the tfstate is not downloaded again.               *)
HeadKnown ==
  /\ pc = "head"
  /\ object.content # None /\ object.content = etag
  /\ head' = object
  /\ tfstates' = Append(tfstates, tfstate)
  /\ pc' = "list"
  /\ UNCHANGED <<bucketVars, cacheVars, pages, body, needUpdate, delivered>>

HeadNew ==
  /\ pc = "head"
  /\ object.content # None /\ object.content # etag
  /\ head' = object
  /\ pc' = "download"
  /\ UNCHANGED <<bucketVars, cacheVars, pages, body, tfstates, needUpdate, delivered>>

Download ==
  /\ pc = "download"
  /\ object.content # None
  /\ body' = object
  /\ pc' = "decode"
  /\ UNCHANGED <<bucketVars, cacheVars, pages, head, tfstates, needUpdate, delivered>>

(* Variant: the error of json.Unmarshal is not looked at.                  *)
DecodableAnyway == Size[body.content] >= Size[head.content]

(* The buffer has the length of the head: a body that is shorter leaves    *)
(* zeros behind it, which are no JSON; a longer one extends the buffer.    *)
Decodable == body.content \notin Malformed /\ Size[body.content] >= Size[head.content]

(* Variant: the etag is asked for after the download.                      *)
DecodeHeadAfter ==
  /\ pc = "decode" /\ Decodable
  /\ etag' = object.content
  /\ tfstate' = body
  /\ tfstates' = Append(tfstates, body)
  /\ needUpdate' = TRUE
  /\ pc' = "list"
  /\ UNCHANGED <<bucketVars, pages, head, body, delivered>>

(* Variant: the tfstates are collected in the reverse order.               *)
DecodeToFront ==
  /\ pc = "decode" /\ Decodable
  /\ etag' = head.content
  /\ tfstate' = body
  /\ tfstates' = <<body>> \o tfstates
  /\ needUpdate' = TRUE
  /\ pc' = "list"
  /\ UNCHANGED <<bucketVars, pages, head, body, delivered>>

(* Variant: needUpdate is only set for an object seen for the first time.  *)
DecodeFirst ==
  /\ pc = "decode" /\ Decodable
  /\ etag' = head.content
  /\ tfstate' = body
  /\ tfstates' = Append(tfstates, body)
  /\ needUpdate' = (etag = None)
  /\ pc' = "list"
  /\ UNCHANGED <<bucketVars, pages, head, body, delivered>>

(* The tfstate is remembered under the etag of the head.                   *)
Decode ==
  /\ pc = "decode" /\ Decodable
  /\ etag' = head.content
  /\ tfstate' = body
  /\ tfstates' = Append(tfstates, body)
  /\ needUpdate' = TRUE
  /\ pc' = "list"
  /\ UNCHANGED <<bucketVars, pages, head, body, delivered>>

(* A request fails, or the object is not there, or it cannot be decoded:   *)
(* the error ends the synchronisation (manager.go:30-34).                  *)
Fail ==
  /\ \/ pc \in {"list", "head", "download"}
     \/ pc = "decode" /\ ~Decodable
  /\ pc' = "failed"
  /\ UNCHANGED <<bucketVars, cacheVars, pages, head, body, tfstates, needUpdate,
                 delivered>>

(* No tfstate at all is returned if none was downloaded in this poll.  The *)
(* only name there is was seen in this poll: nothing is forgotten.         *)
Return ==
  /\ pc = "list" /\ pages > 0
  /\ pc' = "idle"
  /\ delivered' = IF needUpdate THEN tfstates[Len(tfstates)] ELSE delivered
  /\ UNCHANGED <<bucketVars, cacheVars, pages, head, body, tfstates, needUpdate>>

PollStep ==
  NextPage \/ HeadKnown \/ HeadNew \/ Download \/ Decode \/ Fail \/ Return

Halted == pc \in {"failed", "panicked"} /\ UNCHANGED vars

Next ==
  \/ \E c \in Contents : Write(c)
  \/ Delete \/ StartPoll \/ AssumeRoleFails \/ PollStep \/ Halted

Spec == Init /\ [][Next]_vars

(* Polls go on and requests are answered; nothing forces a write.          *)
FairSpec == Spec /\ WF_vars(StartPoll) /\ WF_vars(PollStep)

-----------------------------------------------------------------------------
(* The types of the variables; a tfstate that is remembered was decoded.   *)
TypeOK ==
  /\ suffix \in BOOLEAN
  /\ object \in Object
  /\ reverted \in BOOLEAN
  /\ written \subseteq Contents
  /\ etag \in Contents \cup {None}
  /\ tfstate \in Object /\ tfstate.content \notin Malformed
  /\ pc \in {"idle", "list", "head", "download", "decode", "failed", "panicked"}
  /\ pages \in 0 .. MaxPages
  /\ head \in Object /\ body \in Object
  /\ tfstates \in Seq(Object)
  /\ needUpdate \in BOOLEAN
  /\ delivered \in Object

(* tfstate_source.go:57-110.  A poll that is about to return nothing has   *)
(* missed nothing: what it saw is what the managers were given last.  This *)
(* needs the etag to be older than the tfstate remembered with it, never   *)
(* newer; a content that comes back may still be missed.                   *)
NothingMissed ==
  pc = "list" /\ pages > 0 /\ suffix /\ ~needUpdate =>
    delivered.content = head.content \/ reverted

(* tfstate_source.go:44-106.  The object may change while the pages are    *)
(* walked; the managers let the last tfstate win, and it is the newest.    *)
NewestLast ==
  \A i, j \in DOMAIN tfstates : i < j => tfstates[i].version <= tfstates[j].version

(* tfstate_source.go:28-128.  If polls go on and the object settles, then  *)
(* the managers are given what it settled on, whatever was written between *)
(* the requests of a poll (but see reverted).                              *)
Converges ==
  (suffix /\ []<>(pc = "head")) =>
    <>[](delivered.content = object.content \/ reverted)
=============================================================================

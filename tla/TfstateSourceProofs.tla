------------------------ MODULE TfstateSourceProofs ------------------------
(***************************************************************************)
(* Proofs about the tfstate source: its types, that a poll that returns    *)
(* nothing has missed nothing, and that the tfstates of a poll are in the  *)
(* order of their age.                                                     *)
(*                                                                         *)
(* Neither property is inductive.  That nothing is missed needs three      *)
(* facts: the tfstate that was returned last is the remembered one (Kept), *)
(* the etag belongs to a content the object really had (Etags), and if the *)
(* remembered tfstate is newer than the etag it is remembered under, then  *)
(* the object is not back at that etag, unless it was reverted (Fresh).    *)
(* The order needs the ages of the object, of the download that is on its  *)
(* way and of what is remembered (Ages).                                   *)
(***************************************************************************)
EXTENDS TfstateSource, TLAPS

(* What is remembered is what is returned.                                 *)
Kept ==
  /\ needUpdate => tfstates # <<>>
  /\ tfstates # <<>> => tfstates[Len(tfstates)] = tfstate
  /\ ~needUpdate \/ pc = "idle" => delivered = tfstate

(* Etags are of contents that were written.                                *)
Etags ==
  /\ object.content # None => object.content \in written
  /\ etag # None => etag \in written
  /\ etag = None => tfstate.content = None
  /\ pc \in {"download", "decode"} => head.content \in written

(* An object that moved on does not come back to the older etag.           *)
Fresh ==
  ~reverted =>
    /\ tfstate.content # etag => object.content # etag
    /\ pc = "decode" /\ body.content # head.content => object.content # head.content

Seen ==
  pc = "list" /\ pages > 0 /\ suffix /\ ~needUpdate =>
    head.content = tfstate.content \/ reverted

Ages ==
  /\ tfstate.version <= object.version
  /\ pc = "decode" => tfstate.version <= body.version /\ body.version <= object.version
  /\ \A i \in DOMAIN tfstates : tfstates[i].version <= tfstate.version

Inv == TypeOK /\ Kept /\ Etags /\ Fresh /\ Seen /\ Ages /\ NewestLast

USE SourceAssumption

-----------------------------------------------------------------------------
LEMMA InitInv == Init => Inv
<1> SUFFICES ASSUME Init
             PROVE  Inv
  OBVIOUS
<1>1. NoObject \in Object /\ NoObject.version = 0 /\ NoObject.content = None
  BY DEF NoObject, Object
<1>2. TypeOK
  <2>1. /\ object \in Object /\ tfstate \in Object /\ tfstate.content \notin Malformed
        /\ head \in Object /\ body \in Object /\ delivered \in Object
    BY <1>1 DEF Init
  <2>2. tfstates \in Seq(Object) /\ pages \in 0 .. MaxPages
    BY DEF Init
  <2> QED
    BY <2>1, <2>2 DEF Init, TypeOK
<1>3. Kept /\ Etags /\ Fresh /\ Seen
  BY <1>1 DEF Init, Kept, Etags, Fresh, Seen
<1>4. Ages /\ NewestLast
  BY <1>1 DEF Init, Ages, NewestLast
<1> QED
  BY <1>2, <1>3, <1>4 DEF Inv

(* A write of a content that the object never had is no remembered etag.   *)
LEMMA WriteKeeps ==
  ASSUME Inv, NEW c \in Contents, Write(c)
  PROVE  Inv'
<1> USE DEF Write, cacheVars, pollVars
<1>1. /\ object' \in Object
      /\ object'.version = object.version + 1 /\ object'.content = c
      /\ object.version \in Nat
  <2>1. object.version \in 0 .. MaxWrites
    BY DEF Inv, TypeOK, Object
  <2>2. object.version + 1 \in 0 .. MaxWrites
    BY <2>1
  <2> QED
    BY <2>1, <2>2 DEF Object
<1>2. TypeOK'
  BY <1>1 DEF Inv, TypeOK
<1>3. Etags'
  BY <1>1 DEF Inv, Etags
<1>4. Fresh'
  <2> SUFFICES ASSUME ~reverted'
               PROVE  Fresh'
    BY DEF Fresh
  <2>1. ~reverted /\ c \notin written
    OBVIOUS
  <2>2. c # etag
    BY <2>1 DEF Inv, Etags
  <2>3. pc = "decode" => c # head.content
    BY <2>1 DEF Inv, Etags
  <2> QED
    BY <1>1, <2>1, <2>2, <2>3 DEF Inv, Fresh
<1>5. Ages'
  BY <1>1 DEF Inv, Ages, TypeOK, Object
<1>6. Kept' /\ Seen' /\ NewestLast'
  BY DEF Inv, Kept, Seen, NewestLast
<1> QED
  BY <1>2, <1>3, <1>4, <1>5, <1>6 DEF Inv

LEMMA DeleteKeeps ==
  ASSUME Inv, Delete
  PROVE  Inv'
<1> USE DEF Delete, cacheVars, pollVars
<1>1. /\ object' \in Object
      /\ object'.version = object.version /\ object'.content = None
  BY DEF Inv, TypeOK, Object
<1>2. TypeOK' /\ Etags' /\ Ages'
  BY <1>1 DEF Inv, TypeOK, Etags, Ages
<1>3. Fresh'
  BY <1>1 DEF Inv, TypeOK, Etags, Fresh
<1>4. Kept' /\ Seen' /\ NewestLast'
  BY DEF Inv, Kept, Seen, NewestLast
<1> QED
  BY <1>2, <1>3, <1>4 DEF Inv

(* Appending to a sequence ordered by version an element at least as new   *)
(* as each of its elements keeps it ordered, and the last the newest.      *)
LEMMA AppendOrdered ==
  ASSUME NEW s \in Seq(Object), NEW o \in Object,
         \A i \in DOMAIN s : s[i].version <= o.version,
         \A i, j \in DOMAIN s : i < j => s[i].version <= s[j].version
  PROVE  LET t == Append(s, o)
         IN  /\ \A i \in DOMAIN t : t[i].version <= o.version
             /\ \A i, j \in DOMAIN t : i < j => t[i].version <= t[j].version
<1> DEFINE t == Append(s, o)
<1>1. /\ Len(s) \in Nat /\ DOMAIN s = 1 .. Len(s)
      /\ DOMAIN t = 1 .. (Len(s) + 1)
      /\ t[Len(s) + 1] = o
      /\ \A i \in 1 .. Len(s) : t[i] = s[i]
  OBVIOUS
<1>2. o.version \in Nat
  BY DEF Object
<1> HIDE DEF t
<1>3. \A i \in DOMAIN t : t[i].version <= o.version
  <2> TAKE i \in DOMAIN t
  <2>1. CASE i \in 1 .. Len(s)
    BY <1>1, <2>1
  <2>2. CASE i = Len(s) + 1
    BY <1>1, <1>2, <2>2
  <2> QED
    BY <1>1, <2>1, <2>2
<1>4. ASSUME NEW i \in DOMAIN t, NEW j \in DOMAIN t, i < j
      PROVE  t[i].version <= t[j].version
  <2>1. i \in 1 .. Len(s)
    BY <1>1, <1>4
  <2>2. CASE j \in 1 .. Len(s)
    BY <1>1, <1>4, <2>1, <2>2
  <2>3. CASE j = Len(s) + 1
    BY <1>1, <1>3, <2>3
  <2> QED
    BY <1>1, <2>2, <2>3
<1> QED
  BY <1>3, <1>4 DEF t

LEMMA HeadKnownKeeps ==
  ASSUME Inv, HeadKnown
  PROVE  Inv'
<1> USE DEF HeadKnown, bucketVars, cacheVars
<1>1. /\ tfstates \in Seq(Object) /\ tfstate \in Object
      /\ tfstates' = Append(tfstates, tfstate)
  BY DEF Inv, TypeOK
<1>2. TypeOK'
  BY <1>1 DEF Inv, TypeOK
<1>3. Kept'
  BY <1>1 DEF Inv, Kept
<1>4. Etags' /\ Fresh'
  BY DEF Inv, Etags, Fresh
<1>5. Seen'
  BY DEF Inv, Fresh, Seen
<1>6. /\ \A i \in DOMAIN tfstates' : tfstates'[i].version <= tfstate.version
      /\ NewestLast'
  <2>1. /\ \A i \in DOMAIN tfstates : tfstates[i].version <= tfstate.version
        /\ NewestLast
    BY DEF Inv, Ages
  <2> QED
    BY <1>1, <2>1, AppendOrdered DEF NewestLast
<1>7. Ages'
  BY <1>6 DEF Inv, Ages
<1> QED
  BY <1>2, <1>3, <1>4, <1>5, <1>6, <1>7 DEF Inv

LEMMA DecodeKeeps ==
  ASSUME Inv, Decode
  PROVE  Inv'
<1> USE DEF Decode, bucketVars
<1>1. /\ tfstates \in Seq(Object) /\ tfstate \in Object /\ body \in Object
      /\ tfstates' = Append(tfstates, body) /\ tfstate' = body
      /\ tfstate.version <= body.version /\ body.version <= object.version
  BY DEF Inv, TypeOK, Ages
<1>2. TypeOK'
  <2>1. head.content \in Contents
    BY DEF Inv, TypeOK, Etags
  <2> QED
    BY <1>1, <2>1 DEF Inv, TypeOK, Decodable
<1>3. Kept'
  BY <1>1 DEF Kept
<1>4. Etags'
  BY DEF Inv, Etags, TypeOK
<1>5. Fresh' /\ Seen'
  BY DEF Inv, Fresh, Seen
<1>6. \A i \in DOMAIN tfstates : tfstates[i] \in Object /\ tfstates[i].version <= body.version
  <2> TAKE i \in DOMAIN tfstates
  <2>1. tfstates[i] \in Object /\ tfstates[i].version <= tfstate.version
    BY <1>1 DEF Inv, Ages
  <2> QED
    BY <1>1, <2>1 DEF Object
<1>7. /\ \A i \in DOMAIN tfstates' : tfstates'[i].version <= body.version
      /\ NewestLast'
  BY <1>1, <1>6, AppendOrdered DEF Inv, NewestLast
<1>8. Ages'
  BY <1>1, <1>7 DEF Ages
<1> QED
  BY <1>2, <1>3, <1>4, <1>5, <1>7, <1>8 DEF Inv

LEMMA ReturnKeeps ==
  ASSUME Inv, Return
  PROVE  Inv'
<1> USE DEF Return, bucketVars, cacheVars
<1>1. delivered' = tfstate
  BY DEF Inv, Kept
<1>2. TypeOK' /\ Kept'
  BY <1>1 DEF Inv, TypeOK, Kept
<1>3. Etags' /\ Fresh' /\ Seen'
  BY DEF Inv, Etags, Fresh, Seen
<1>4. Ages' /\ NewestLast'
  BY DEF Inv, Ages, NewestLast
<1> QED
  BY <1>2, <1>3, <1>4 DEF Inv

-----------------------------------------------------------------------------
LEMMA NextInv == Inv /\ [Next]_vars => Inv'
<1> SUFFICES ASSUME Inv, [Next]_vars
             PROVE  Inv'
  OBVIOUS
<1>1. ASSUME NEW c \in Contents, Write(c) PROVE Inv'
  BY <1>1, WriteKeeps
<1>2. CASE Delete
  BY <1>2, DeleteKeeps
<1>3. CASE StartPoll
  <2>1. TypeOK'
    <3>1. tfstates' \in Seq(Object) /\ pages' \in 0 .. MaxPages
      BY <1>3 DEF StartPoll
    <3> QED
      BY <1>3, <3>1 DEF StartPoll, bucketVars, cacheVars, Inv, TypeOK
  <2>2. Kept' /\ Etags' /\ Fresh' /\ Seen'
    BY <1>3 DEF StartPoll, bucketVars, cacheVars, Inv, TypeOK, Kept, Etags, Fresh, Seen
  <2>3. Ages' /\ NewestLast'
    BY <1>3 DEF StartPoll, bucketVars, cacheVars, Inv, Ages, NewestLast
  <2> QED
    BY <2>1, <2>2, <2>3 DEF Inv
<1>4. CASE NextPage
  <2>1. /\ pc' \in {"list", "head"} /\ pages' \in 0 .. MaxPages
        /\ pc' = "list" => ~suffix
    BY <1>4 DEF NextPage, Inv, TypeOK
  <2> QED
    BY <1>4, <2>1 DEF NextPage, bucketVars, cacheVars, Inv, TypeOK, Kept, Etags, Fresh,
                      Seen, Ages, NewestLast
<1>5. CASE HeadKnown
  BY <1>5, HeadKnownKeeps
<1>6. CASE HeadNew
  BY <1>6 DEF HeadNew, bucketVars, cacheVars, Inv, TypeOK, Kept, Etags, Fresh, Seen,
              Ages, NewestLast
<1>7. CASE Download
  BY <1>7 DEF Download, bucketVars, cacheVars, Inv, TypeOK, Object, Kept, Etags, Fresh,
              Seen, Ages, NewestLast
<1>8. CASE Decode
  BY <1>8, DecodeKeeps
<1>9. CASE Fail
  BY <1>9 DEF Fail, bucketVars, cacheVars, Inv, TypeOK, Kept, Etags, Fresh, Seen,
              Ages, NewestLast
<1>10. CASE Return
  BY <1>10, ReturnKeeps
<1>11. CASE AssumeRoleFails
  BY <1>11 DEF AssumeRoleFails, bucketVars, cacheVars, Inv, TypeOK, Kept, Etags, Fresh,
               Seen, Ages, NewestLast
<1>12. CASE UNCHANGED vars
  BY <1>12 DEF vars, bucketVars, cacheVars, pollVars, Inv, TypeOK, Kept, Etags, Fresh,
               Seen, Ages, NewestLast
<1> QED
  BY <1>1, <1>2, <1>3, <1>4, <1>5, <1>6, <1>7, <1>8, <1>9, <1>10, <1>11,
     <1>12
  DEF Next, PollStep, Halted

LEMMA Invariance == Spec => []Inv
BY InitInv, NextInv, PTL DEF Spec

(* The types hold for every bucket: what is remembered was decoded, so no  *)
(* malformed state is ever handed out.                                     *)
THEOREM SourceTypeCorrect == Spec => []TypeOK
<1>1. Inv => TypeOK
  BY DEF Inv
<1> QED
  BY <1>1, Invariance, PTL

(* For any contents, pages and writes, a poll about to report no change    *)
(* saw the content that the managers were given last (tfstate_source.go:   *)
(* 57-110), unless a content came back: the remembered etag may be older   *)
(* than the tfstate it stands for, and an object that moved on is not back *)
(* at it.                                                                  *)
THEOREM NoChangeMissed == Spec => []NothingMissed
<1>1. Inv => NothingMissed
  BY DEF Inv, Kept, Seen, NothingMissed
<1> QED
  BY <1>1, Invariance, PTL

(* The tfstates that a poll returns are in the order of their writing, for *)
(* any number of pages (tfstate_source.go:44-106).                         *)
THEOREM NewestReturnedLast == Spec => []NewestLast
<1>1. Inv => NewestLast
  BY DEF Inv
<1> QED
  BY <1>1, Invariance, PTL
=============================================================================

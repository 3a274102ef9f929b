------------------------------ MODULE Sites_proofs ------------------------------
(***************************************************************************)
(* Proofs about Sites, for any bridges, any number of requests at a time   *)
(* and any bounds.                                                         *)
(***************************************************************************)
EXTENDS Sites, TLAPS

(* Every stored verification is one of the bridge the site now points to,  *)
(* and a site without a credential has none, but for an overtaken request. *)
VerifiedHere == site.verified # "no" => "trust" \in overtaken \/ probed = site.url
KeylessIsUnverified ==
  site.key = NoKey => site.verified = "no" \/ "trust" \in overtaken
(* A handshake under way has a credential.                                  *)
Keyed == \A s \in Slot : Does(s, "handshake", "asked") => req[s].key # NoKey

(* A request carries what its kind is given, or was answered.               *)
ArgTyped ==
  \A s \in Slot :
    /\ Does(s, "update", "asked") => req[s].arg \in Bridge
    /\ req[s].op = "replace" => req[s].arg \in Key
    /\ Does(s, "rotate", "answered") => req[s].arg \in Key

IInv == TypeOK /\ ArgTyped /\ Keyed /\ VerifiedHere /\ WritesAreVerified
               /\ KeylessIsUnverified /\ KeylessIsOff

-----------------------------------------------------------------------------
(* The state at the beginning.                                             *)

LEMMA InitInv == Init => IInv
<1> SUFFICES ASSUME Init PROVE IInv
  OBVIOUS
<1>0. MaxKey \in Nat /\ MaxKey # 0 /\ MaxAsk \in Nat /\ MaxFail \in Nat
  BY SitesAssumption
<1> USE DEF Init
<1>1. issued \subseteq Key
  <2>1. 1 \in 1..MaxKey
    BY <1>0
  <2> QED BY <2>1 DEF Key
<1>2. PICK b \in Bridge : site = NoSite(b)
  OBVIOUS
<1>4. /\ site.status = "absent" /\ site.key = NoKey /\ site.writes = FALSE
      /\ site.verified = "no" /\ site \in Site
  BY <1>2 DEF NoSite, Site, Status
<1>5. TypeOK
  <2>1. req \in [Slot -> Req \cup {Idle}]
    OBVIOUS
  <2>2. asks \in 0..MaxAsk /\ fails \in 0..MaxFail
    BY <1>0
  <2> QED BY <1>1, <1>4, <2>1, <2>2 DEF TypeOK
<1>6. Keyed /\ ArgTyped
  BY DEF Keyed, ArgTyped, Does, Idle
<1> QED
  BY <1>4, <1>5, <1>6 DEF IInv, VerifiedHere, WritesAreVerified,
     KeylessIsUnverified, KeylessIsOff

-----------------------------------------------------------------------------
(* Types.  One lemma for what a step stores and what it leaves of requests. *)

LEMMA StoreType ==
  ASSUME TypeOK, NEW doc \in Site, Store(doc)
  PROVE  site' \in Site
BY DEF Store, TypeOK

LEMMA NoteType ==
  ASSUME TypeOK, NEW kind \in {"trust", "connection"}, NEW b \in BOOLEAN, Note(kind, b)
  PROVE  overtaken' \subseteq {"trust", "connection"} /\ overtaken \subseteq overtaken'
BY DEF Note, TypeOK

LEMMA FailType ==
  ASSUME TypeOK, Fail \/ UNCHANGED fails
  PROVE  fails' \in 0..MaxFail
BY SitesAssumption DEF Fail, TypeOK

(* Requests: what is read of a document is well formed, and the others stay. *)
LEMMA ReadingType ==
  ASSUME TypeOK, NEW s \in Slot, NEW op \in Op, NEW at \in {"asked", "answered"},
         NEW arg \in Bridge \cup Key \cup {NoKey}, NEW doc,
         doc.url \in Bridge, doc.key \in Key \cup {NoKey},
         Reading(s, op, at, arg, doc)
  PROVE  req' \in [Slot -> Req \cup {Idle}]
BY DEF Reading, TypeOK, Req

LEMMA DoneType ==
  ASSUME TypeOK, NEW s \in Slot, Done(s)
  PROVE  req' \in [Slot -> Req \cup {Idle}]
BY DEF Done, TypeOK

(* A request that does something is a well-formed one.                      *)
LEMMA DoesType ==
  ASSUME TypeOK, NEW s \in Slot, NEW op \in Op, NEW at, Does(s, op, at)
  PROVE  req[s] \in Req
BY DEF Does, TypeOK, Idle, Op

-----------------------------------------------------------------------------
(* Types are kept, one step per action.                                     *)

LEMMA AskType ==
  ASSUME TypeOK, NEW s \in Slot, Ask(s)
  PROVE  TypeOK'
<1>1. ASSUME NEW op \in Op, NEW arg \in Bridge \cup Key \cup {NoKey}, Begin(s, op, arg)
      PROVE  TypeOK'
  <2>1. req' \in [Slot -> Req \cup {Idle}]
    <3>1. site.url \in Bridge /\ site.key \in Key \cup {NoKey}
      BY DEF TypeOK, Site
    <3> QED BY <1>1, <3>1, ReadingType DEF Begin
  <2>2. asks' \in 0..MaxAsk
    BY <1>1, SitesAssumption DEF Begin, TypeOK
  <2> QED BY <1>1, <2>1, <2>2 DEF Begin, keys, hist, TypeOK
<1>2. Given \subseteq Key
  BY DEF Given, TypeOK
<1> QED BY <1>1, <1>2 DEF Ask, Op

LEMMA CreateType ==
  ASSUME TypeOK, NEW s \in Slot, NEW b \in Bridge, NEW k \in Given, Create(s, b, k)
  PROVE  TypeOK'
<1>1. k \in Key
  BY DEF Given, TypeOK
<1>2. /\ NewSite(b, k) \in Site /\ NewSite(b, k).url \in Bridge
      /\ NewSite(b, k).key \in Key \cup {NoKey}
  BY <1>1 DEF NewSite, Site, Status
<1>3. req' \in [Slot -> Req \cup {Idle}]
  BY <1>2, ReadingType DEF Create, Op
<1>4. asks' \in 0..MaxAsk
  BY SitesAssumption DEF Create, TypeOK
<1>5. works' \in BOOLEAN
  BY DEF Create, Good
<1> QED BY <1>2, <1>3, <1>4, <1>5 DEF Create, keys, TypeOK

LEMMA BreakOffType ==
  ASSUME TypeOK, NEW s \in Slot, BreakOff(s)
  PROVE  TypeOK'
<1>1. req' \in [Slot -> Req \cup {Idle}] /\ fails' \in 0..MaxFail
  BY DoneType, FailType DEF BreakOff
<1>2. lost' \subseteq Key \cup {NoKey}
  BY DEF BreakOff, TypeOK, Req, Idle
<1> QED BY <1>1, <1>2 DEF BreakOff, keys, TypeOK

(* The actions that only touch the site's document.                         *)
LEMMA AloneType ==
  ASSUME TypeOK, Delete \/ Disable \/ Age
  PROVE  TypeOK'
<1>1. site' \in Site
  <2>1. CASE Delete
    BY <2>1 DEF Delete, NoSite, Site, Status, TypeOK
  <2>2. CASE Disable
    BY <2>2 DEF Disable, Site, Status, TypeOK
  <2>3. CASE Age
    BY <2>3 DEF Age, Site, Status, TypeOK
  <2> QED BY <2>1, <2>2, <2>3
<1> QED BY <1>1 DEF Delete, Disable, Age, keys, hist, TypeOK

LEMMA TrustType ==
  ASSUME TypeOK, ArgTyped, NEW s \in Slot, Handshake(s) \/ Update(s) \/ Verify(s) \/ Enable(s)
  PROVE  TypeOK'
<1>0. req' \in [Slot -> Req \cup {Idle}]
  BY DoneType DEF Handshake, Update, Verify, Enable
<1>1. CASE Handshake(s)
  <2>1. \A doc \in Outcomes(s) : doc \in Site
    BY ZenonT(30) DEF Outcomes, Site, Status, TypeOK
  <2>2. [site EXCEPT !.status = "unreachable"] \in Site
    BY DEF Site, Status, TypeOK
  <2>3. site' \in Site
    BY <1>1, <2>1, <2>2, StoreType DEF Handshake
  <2>4. fails' \in 0..MaxFail
    BY <1>1, FailType DEF Handshake
  <2>5. overtaken' \subseteq {"trust", "connection"}
    BY <1>1, NoteType DEF Handshake, Changed
  <2> QED BY <1>0, <1>1, <2>3, <2>4, <2>5 DEF Handshake, keys, TypeOK
<1>2. CASE Update(s)
  <2>1. req[s].arg \in Bridge
    BY <1>2 DEF Update, ArgTyped
  <2>2. [site EXCEPT !.url = req[s].arg] \in Site
    BY <2>1 DEF Site, TypeOK
  <2>3. [site EXCEPT !.url = req[s].arg, !.writes = FALSE, !.verified = "no",
                     !.status = "unverified"] \in Site
    BY <2>1 DEF Site, Status, TypeOK
  <2>4. site' \in Site
    BY <1>2, <2>2, <2>3, StoreType DEF Update
  <2>5. overtaken' \subseteq {"trust", "connection"}
    BY <1>2, NoteType DEF Update, Changed
  <2>6. works' \in BOOLEAN
    BY <1>2 DEF Update, Good, TypeOK
  <2> QED BY <1>0, <1>2, <2>4, <2>5, <2>6 DEF Update, keys, TypeOK
<1>3. CASE Verify(s)
  <2>1. [site EXCEPT !.verified = "fresh"] \in Site
    BY DEF Site, TypeOK
  <2>2. site' \in Site
    BY <1>3, <2>1, StoreType DEF Verify, TypeOK
  <2>3. req[s].url \in Bridge
    BY <1>3, DoesType DEF Verify, Op, Req
  <2>4. probed' \in Bridge \cup {NoKey}
    BY <1>3, <2>3 DEF Verify, TypeOK
  <2>5. overtaken' \subseteq {"trust", "connection"}
    BY <1>3, NoteType DEF Verify, Changed, TypeOK
  <2> QED BY <1>0, <1>3, <2>2, <2>4, <2>5 DEF Verify, keys, TypeOK
<1>4. CASE Enable(s)
  <2>1. [site EXCEPT !.writes = TRUE] \in Site
    BY DEF Site, TypeOK
  <2>2. site' \in Site
    BY <1>4, <2>1, StoreType DEF Enable
  <2>3. overtaken' \subseteq {"trust", "connection"}
    BY <1>4, NoteType DEF Enable, Changed, MayEnable
  <2> QED BY <1>0, <1>4, <2>2, <2>3 DEF Enable, keys, TypeOK
<1> QED BY <1>1, <1>2, <1>3, <1>4

LEMMA KeyType ==
  ASSUME TypeOK, ArgTyped, NEW s \in Slot,
         \/ Rotate(s) \/ StoreRotated(s) \/ Try(s) \/ StoreReplaced(s)
         \/ Revoke(s) \/ StoreRevoked(s)
  PROVE  TypeOK'
<1>1. CASE Rotate(s)
  <2>1. req[s] \in Req
    BY <1>1, DoesType DEF Rotate, Op
  <2>2. CASE ~Accepts(req[s].url, req[s].key)
    BY <1>1, <2>2, DoneType DEF Rotate, keys, TypeOK
  <2>3. ASSUME Accepts(req[s].url, req[s].key), NEW k \in Key \ issued,
               issued' = issued \cup {k}, Issue(s, k),
               \/ Reading(s, "rotate", "answered", k, req[s]) /\ UNCHANGED <<fails, lost>>
               \/ Done(s) /\ Fail /\ lost' = lost \cup {req[s].key}
        PROVE  TypeOK'
    <3>1. issued' \subseteq Key /\ valid' \subseteq issued' /\ grace' \subseteq valid'
      BY <2>3 DEF Issue, Accepts, TypeOK
    <3>2. req' \in [Slot -> Req \cup {Idle}]
      BY <2>1, <2>3, ReadingType, DoneType DEF Op, Req
    <3>3. fails' \in 0..MaxFail
      BY <2>3, FailType
    <3>4. lost' \subseteq Key \cup {NoKey}
      BY <2>1, <2>3 DEF TypeOK, Req
    <3> QED BY <1>1, <3>1, <3>2, <3>3, <3>4 DEF Rotate, TypeOK
  <2> QED BY <1>1, <2>2, <2>3 DEF Rotate
<1>2. ASSUME NEW doc \in Site, Store(doc), Shake(s, doc)
      PROVE  site' \in Site /\ req' \in [Slot -> Req \cup {Idle}]
  <2>1. doc.url \in Bridge /\ doc.key \in Key \cup {NoKey}
    BY DEF Site
  <2>2. site' \in Site
    BY <1>2, StoreType
  <2>3. req' \in [Slot -> Req \cup {Idle}]
    BY <1>2, <2>1, ReadingType, DoneType DEF Shake, Op
  <2> QED BY <2>2, <2>3
<1>3. CASE StoreRotated(s)
  <2>1. [site EXCEPT !.key = req[s].arg] \in Site
    BY <1>3 DEF StoreRotated, ArgTyped, Site, TypeOK
  <2> QED BY <1>2, <1>3, <2>1 DEF StoreRotated, keys, TypeOK
<1>4. CASE Try(s)
  <2>1. req[s] \in Req
    BY <1>4, DoesType DEF Try, Op
  <2>2. req' \in [Slot -> Req \cup {Idle}]
    <3>1. [req[s] EXCEPT !.at = "answered"] \in Req
      BY <2>1 DEF Req
    <3> QED BY <1>4, <3>1, DoneType DEF Try, TypeOK
  <2> QED BY <1>4, <2>2 DEF Try, keys, hist, TypeOK
<1>5. CASE StoreReplaced(s)
  <2>1. req[s].op = "replace"
    BY <1>5 DEF StoreReplaced, Does
  <2>2. [site EXCEPT !.key = req[s].arg, !.status = "unverified"] \in Site
    BY <2>1 DEF ArgTyped, Site, Status, TypeOK
  <2> QED BY <1>2, <1>5, <2>2 DEF StoreReplaced, keys, TypeOK
<1>6. CASE Revoke(s)
  <2>1. req[s] \in Req
    BY <1>6, DoesType DEF Revoke, Op
  <2>2. req' \in [Slot -> Req \cup {Idle}]
    <3>1. [req[s] EXCEPT !.at = "answered"] \in Req
      BY <2>1 DEF Req
    <3> QED BY <1>6, <3>1 DEF Revoke, TypeOK
  <2>3. fails' \in 0..MaxFail
    BY <1>6, FailType DEF Revoke
  <2>4. valid' \subseteq issued /\ grace' \subseteq valid'
    BY <1>6 DEF Revoke, TypeOK
  <2> QED BY <1>6, <2>2, <2>3, <2>4 DEF Revoke, hist, TypeOK
<1>7. CASE StoreRevoked(s)
  <2>1. [site EXCEPT !.status = "revoked", !.writes = FALSE, !.verified = "no",
                     !.key = NoKey] \in Site
    BY DEF Site, Status, TypeOK
  <2>2. site' \in Site
    BY <1>7, <2>1, StoreType DEF StoreRevoked
  <2> QED BY <1>7, <2>2, DoneType DEF StoreRevoked, keys, TypeOK
<1> QED BY <1>1, <1>3, <1>4, <1>5, <1>6, <1>7

LEMMA NextType == TypeOK /\ ArgTyped /\ [Next]_vars => TypeOK'
<1> SUFFICES ASSUME TypeOK, ArgTyped, [Next]_vars PROVE TypeOK'
  OBVIOUS
<1>1. ASSUME NEW s \in Slot, Finish(s) PROVE TypeOK'
  BY <1>1, TrustType, KeyType DEF Finish
<1>2. ASSUME NEW k \in Key, GraceEnds(k) PROVE TypeOK'
  BY <1>2 DEF GraceEnds, hist, TypeOK
<1>3. CASE UNCHANGED vars
  BY <1>3 DEF vars, keys, hist, TypeOK
<1> QED
  BY <1>1, <1>2, <1>3, AskType, CreateType, BreakOffType, AloneType DEF Next

-----------------------------------------------------------------------------
(* What a request carries.                                                 *)

Carries == ArgTyped /\ Keyed

(* A step of one slot that leaves it idle, or well equipped, is harmless.   *)
LEMMA DoneCarries ==
  ASSUME Carries, TypeOK, NEW s \in Slot, Done(s)
  PROVE  Carries'
BY DEF Carries, ArgTyped, Keyed, Does, Done, Idle, TypeOK

LEMMA ReadingCarries ==
  ASSUME Carries, TypeOK, NEW s \in Slot, NEW op, NEW at, NEW arg, NEW doc,
         Reading(s, op, at, arg, doc),
         op = "update" => arg \in Bridge,
         op = "replace" => arg \in Key,
         op = "rotate" /\ at = "answered" => arg \in Key,
         op = "handshake" => doc.key # NoKey
  PROVE  Carries'
<1>1. \A r \in Slot : req'[r] =
        IF r = s THEN [op |-> op, at |-> at, url |-> doc.url, key |-> doc.key, arg |-> arg]
                 ELSE req[r]
  BY DEF Reading, TypeOK
<1> QED BY <1>1 DEF Carries, ArgTyped, Keyed, Does

LEMMA SameCarries ==
  ASSUME Carries, UNCHANGED req
  PROVE  Carries'
BY DEF Carries, ArgTyped, Keyed, Does

LEMMA AnsweredCarries ==
  ASSUME Carries, TypeOK, NEW s \in Slot, req[s].op \in {"replace", "revoke"}, req[s] \in Req,
         req' = [req EXCEPT ![s].at = "answered"]
  PROVE  Carries'
<1>1. \A r \in Slot : req'[r] = IF r = s THEN [req[s] EXCEPT !.at = "answered"] ELSE req[r]
  BY DEF TypeOK
<1>2. /\ req'[s].op = req[s].op /\ req'[s].arg = req[s].arg
  BY <1>1 DEF Req
<1> QED BY <1>1, <1>2 DEF Carries, ArgTyped, Keyed, Does

LEMMA NextCarries ==
  ASSUME TypeOK, Carries, [Next]_vars
  PROVE  Carries'
<1>0. NoKey \notin Key
  BY SitesAssumption
<1>1. ASSUME NEW s \in Slot, NEW b \in Bridge, NEW k \in Given, Create(s, b, k)
      PROVE  Carries'
  <2>1. k \in Key
    BY DEF Given, TypeOK
  <2>2. NewSite(b, k).key # NoKey
    BY <2>1, <1>0 DEF NewSite
  <2> QED BY <1>1, <2>2, ReadingCarries DEF Create
<1>2. ASSUME NEW s \in Slot, NEW op, NEW arg, Begin(s, op, arg),
             op = "update" => arg \in Bridge, op = "replace" => arg \in Key
      PROVE  Carries'
  <2>1. op = "handshake" => site.key # NoKey
    BY <1>2 DEF Begin, Usable
  <2> QED BY <1>2, <2>1, ReadingCarries DEF Begin
<1>3. ASSUME NEW s \in Slot, Ask(s) PROVE Carries'
  <2>1. Given \subseteq Key
    BY DEF Given, TypeOK
  <2> QED BY <1>2, <1>3, <2>1 DEF Ask
<1>4. ASSUME NEW s \in Slot, Handshake(s) \/ Update(s) \/ Verify(s) \/ Enable(s)
                              \/ StoreRevoked(s) \/ BreakOff(s)
      PROVE  Carries'
  BY <1>4, DoneCarries DEF Handshake, Update, Verify, Enable, StoreRevoked, BreakOff
<1>5. ASSUME NEW s \in Slot, Rotate(s) PROVE Carries'
  BY <1>5, DoneCarries, ReadingCarries DEF Rotate
<1>6. ASSUME NEW s \in Slot, NEW doc, doc.key \in Key, Shake(s, doc) PROVE Carries'
  BY <1>0, <1>6, DoneCarries, ReadingCarries DEF Shake
<1>7. ASSUME NEW s \in Slot, StoreRotated(s) PROVE Carries'
  <2>1. req[s].arg \in Key
    BY <1>7 DEF StoreRotated, Carries, ArgTyped
  <2>2. [site EXCEPT !.key = req[s].arg].key \in Key
    BY <2>1 DEF TypeOK, Site
  <2> QED BY <1>6, <1>7, <2>2 DEF StoreRotated
<1>8. ASSUME NEW s \in Slot, StoreReplaced(s) PROVE Carries'
  <2>1. req[s].arg \in Key
    BY <1>8 DEF StoreReplaced, Carries, ArgTyped, Does
  <2>2. [site EXCEPT !.key = req[s].arg, !.status = "unverified"].key \in Key
    BY <2>1 DEF TypeOK, Site
  <2> QED BY <1>6, <1>8, <2>2 DEF StoreReplaced
<1>9. ASSUME NEW s \in Slot, Try(s) PROVE Carries'
  <2>1. req[s].op = "replace" /\ req[s] \in Req
    BY <1>9, DoesType DEF Try, Does, Op
  <2> QED BY <1>9, <2>1, DoneCarries, AnsweredCarries DEF Try
<1>10. ASSUME NEW s \in Slot, Revoke(s) PROVE Carries'
  <2>1. req[s].op = "revoke" /\ req[s] \in Req
    BY <1>10, DoesType DEF Revoke, Does, Op
  <2> QED BY <1>10, <2>1, AnsweredCarries DEF Revoke
<1>11. ASSUME Delete \/ Disable \/ Age \/ (\E k \in Key : GraceEnds(k)) \/ UNCHANGED vars
       PROVE  Carries'
  BY <1>11, SameCarries DEF Delete, Disable, Age, GraceEnds, vars
<1> QED
  BY <1>1, <1>3, <1>4, <1>5, <1>7, <1>8, <1>9, <1>10, <1>11 DEF Next, Finish

-----------------------------------------------------------------------------
(* What the document promises: verification, switch and credential.        *)

Promises == VerifiedHere /\ WritesAreVerified /\ KeylessIsUnverified /\ KeylessIsOff

(* A step keeps the promises where it writes the document so that each      *)
(* holds of what it wrote, and forgets no overtaken request.                *)
LEMMA StoreNothing ==
  ASSUME Promises, site' = site, probed' = probed, overtaken \subseteq overtaken'
  PROVE  Promises'
BY DEF Promises, VerifiedHere, WritesAreVerified, KeylessIsUnverified, KeylessIsOff

LEMMA AbsentKeeps ==
  ASSUME Promises, NEW doc, Store(doc), ~Exists, probed' = probed,
         overtaken \subseteq overtaken'
  PROVE  Promises'
BY StoreNothing DEF Store

LEMMA HandshakePromises ==
  ASSUME TypeOK, Carries, Promises, NEW s \in Slot, Handshake(s)
  PROVE  Promises'
<1>1. overtaken \subseteq overtaken'
  BY NoteType DEF Handshake, Changed
<1>2. req[s].op = "handshake" /\ req[s].key # NoKey
  BY DEF Handshake, Does, Carries, Keyed
<1>3. site.key = NoKey => "connection" \in overtaken'
  BY <1>2 DEF Handshake, Note, Changed
<1>4. PICK doc : /\ Store(doc)
                 /\ doc.url = site.url /\ doc.key = site.key
                 /\ doc.verified = site.verified /\ doc.writes \in {site.writes, FALSE}
  <2>1. \A doc \in Outcomes(s) \cup {[site EXCEPT !.status = "unreachable"]} :
           /\ doc.url = site.url /\ doc.key = site.key
           /\ doc.verified = site.verified /\ doc.writes \in {site.writes, FALSE}
    BY DEF Outcomes, TypeOK, Site
  <2> QED BY <2>1 DEF Handshake
<1>5. CASE Exists
  <2>1. site' = doc /\ probed' = probed
    BY <1>4, <1>5 DEF Store, Handshake
  <2> QED BY <1>1, <1>3, <1>4, <2>1
       DEF Promises, VerifiedHere, WritesAreVerified, KeylessIsUnverified, KeylessIsOff
<1>6. CASE ~Exists
  BY <1>1, <1>4, <1>6, AbsentKeeps DEF Handshake
<1> QED BY <1>5, <1>6

LEMMA UpdatePromises ==
  ASSUME TypeOK, Carries, Promises, NEW s \in Slot, Update(s)
  PROVE  Promises'
<1>1. overtaken \subseteq overtaken' /\ probed' = probed
  BY NoteType DEF Update, Changed
<1>2. req[s].op = "update"
  BY DEF Update, Does
<1>3. Changed(s) => "trust" \in overtaken'
  BY <1>2 DEF Update, Note
<1>4. CASE ~Exists
  BY <1>1, <1>4, AbsentKeeps DEF Update
<1>5. CASE Exists /\ req[s].arg = req[s].url
  <2>1. site' = [site EXCEPT !.url = req[s].url]
    BY <1>5 DEF Update, Store
  <2>2. CASE Changed(s)
    <3>1. /\ site'.key = site.key /\ site'.status = site.status
          /\ site'.verified = site.verified /\ site'.writes = site.writes
      BY <2>1 DEF TypeOK, Site
    <3> QED BY <1>1, <1>3, <2>2, <3>1
         DEF Promises, VerifiedHere, WritesAreVerified, KeylessIsUnverified, KeylessIsOff
  <2>3. CASE ~Changed(s)
    <3>1. site' = site
      BY <2>1, <2>3 DEF Changed, TypeOK, Site
    <3> QED BY <1>1, <3>1, StoreNothing
  <2> QED BY <2>2, <2>3
<1>6. CASE Exists /\ req[s].arg # req[s].url
  <2>1. site' = [site EXCEPT !.url = req[s].arg, !.writes = FALSE, !.verified = "no",
                             !.status = "unverified"]
    BY <1>6 DEF Update, Store
  <2>2. site'.writes = FALSE /\ site'.verified = "no" /\ site'.status = "unverified"
    BY <2>1 DEF TypeOK, Site
  <2> QED BY <2>2
       DEF Promises, VerifiedHere, WritesAreVerified, KeylessIsUnverified, KeylessIsOff
<1> QED BY <1>4, <1>5, <1>6

LEMMA VerifyPromises ==
  ASSUME TypeOK, Carries, Promises, NEW s \in Slot, Verify(s)
  PROVE  Promises'
<1>0. NoKey \notin Key
  BY SitesAssumption
<1>1. CASE UNCHANGED <<site, probed, overtaken>>
  BY <1>1, StoreNothing
<1>2. CASE /\ Accepts(req[s].url, req[s].key)
           /\ Store([site EXCEPT !.verified = "fresh"])
           /\ probed' = IF Exists THEN req[s].url ELSE probed
           /\ Note("trust", Changed(s))
  <2>1. overtaken \subseteq overtaken'
    BY <1>2, NoteType DEF Changed
  <2>2. req[s].op = "verify" /\ req[s].key # NoKey
    BY <1>0, <1>2 DEF Verify, Does, Accepts, TypeOK
  <2>3. Changed(s) => "trust" \in overtaken'
    BY <1>2, <2>2 DEF Note
  <2>4. CASE ~Exists
    BY <1>2, <2>1, <2>4, AbsentKeeps
  <2>5. CASE Exists
    <3>1. site' = [site EXCEPT !.verified = "fresh"] /\ probed' = req[s].url
      BY <1>2, <2>5 DEF Store
    <3>2. /\ site'.key = site.key /\ site'.status = site.status
          /\ site'.url = site.url /\ site'.writes = site.writes
      BY <3>1 DEF TypeOK, Site
    <3>3. ~Changed(s) => site.key # NoKey /\ probed' = site.url
      BY <2>2, <3>1 DEF Changed
    <3> QED BY <2>1, <2>3, <3>2, <3>3
         DEF Promises, VerifiedHere, WritesAreVerified, KeylessIsUnverified, KeylessIsOff
  <2> QED BY <2>4, <2>5
<1> QED BY <1>1, <1>2 DEF Verify

LEMMA EnablePromises ==
  ASSUME TypeOK, Carries, Promises, NEW s \in Slot, Enable(s)
  PROVE  Promises'
<1>1. overtaken \subseteq overtaken' /\ probed' = probed
  BY NoteType DEF Enable, Changed, MayEnable
<1>2. req[s].op = "enable"
  BY DEF Enable, Does
<1>3. "trust" \in overtaken' \/ site.verified = "fresh"
  BY <1>2 DEF Enable, Note, MayEnable
<1>4. CASE ~Exists
  BY <1>1, <1>4, AbsentKeeps DEF Enable
<1>5. CASE Exists
  <2>1. site' = [site EXCEPT !.writes = TRUE]
    BY <1>5 DEF Enable, Store
  <2>2. /\ site'.key = site.key /\ site'.status = site.status
        /\ site'.url = site.url /\ site'.verified = site.verified
    BY <2>1 DEF TypeOK, Site
  <2> QED BY <1>1, <1>3, <2>2
       DEF Promises, VerifiedHere, WritesAreVerified, KeylessIsUnverified, KeylessIsOff
<1> QED BY <1>4, <1>5

(* A new key keeps the rest of the document, or makes it unverified.        *)
LEMMA NewKeyPromises ==
  ASSUME TypeOK, Promises, NEW doc, Store(doc), probed' = probed,
         overtaken \subseteq overtaken',
         doc.key \in Key, doc.url = site.url, doc.verified = site.verified,
         doc.writes = site.writes
  PROVE  Promises'
<1>0. NoKey \notin Key
  BY SitesAssumption
<1>1. CASE ~Exists
  BY <1>1, AbsentKeeps
<1>2. CASE Exists
  BY <1>0, <1>2 DEF Store, Promises, VerifiedHere, WritesAreVerified,
     KeylessIsUnverified, KeylessIsOff
<1> QED BY <1>1, <1>2

LEMMA NextPromises ==
  ASSUME TypeOK, Carries, Promises, [Next]_vars
  PROVE  Promises'
<1>0. NoKey \notin Key
  BY SitesAssumption
<1>1. ASSUME NEW s \in Slot, NEW b \in Bridge, NEW k \in Given, Create(s, b, k)
      PROVE  Promises'
  <2>1. k \in Key
    BY DEF Given, TypeOK
  <2>2. /\ site'.writes = FALSE /\ site'.verified = "no" /\ site'.key = k
    BY <1>1 DEF Create, NewSite
  <2> QED BY <1>0, <2>1, <2>2
       DEF Promises, VerifiedHere, WritesAreVerified, KeylessIsUnverified, KeylessIsOff
<1>2. ASSUME NEW s \in Slot, StoreRotated(s) PROVE Promises'
  <2> DEFINE doc == [site EXCEPT !.key = req[s].arg]
  <2>1. req[s].arg \in Key
    BY <1>2 DEF StoreRotated, Carries, ArgTyped
  <2>2. /\ doc.key \in Key /\ doc.url = site.url /\ doc.verified = site.verified
        /\ doc.writes = site.writes
    BY <2>1 DEF TypeOK, Site
  <2>3. overtaken \subseteq overtaken' /\ Store(doc) /\ probed' = probed
    BY <1>2 DEF StoreRotated
  <2> HIDE DEF doc
  <2> QED BY <2>2, <2>3, NewKeyPromises
<1>3. ASSUME NEW s \in Slot, StoreReplaced(s) PROVE Promises'
  <2> DEFINE doc == [site EXCEPT !.key = req[s].arg, !.status = "unverified"]
  <2>1. req[s].arg \in Key
    BY <1>3 DEF StoreReplaced, Carries, ArgTyped, Does
  <2>2. /\ doc.key \in Key /\ doc.url = site.url /\ doc.verified = site.verified
        /\ doc.writes = site.writes
    BY <2>1 DEF TypeOK, Site
  <2>3. overtaken \subseteq overtaken' /\ Store(doc) /\ probed' = probed
    BY <1>3 DEF StoreReplaced
  <2> HIDE DEF doc
  <2> QED BY <2>2, <2>3, NewKeyPromises
<1>4. ASSUME NEW s \in Slot, StoreRevoked(s) PROVE Promises'
  <2>1. overtaken \subseteq overtaken' /\ probed' = probed
    BY <1>4 DEF StoreRevoked
  <2>2. CASE ~Exists
    BY <1>4, <2>1, <2>2, AbsentKeeps DEF StoreRevoked
  <2>3. CASE Exists
    <3>1. site' = [site EXCEPT !.status = "revoked", !.writes = FALSE, !.verified = "no",
                               !.key = NoKey]
      BY <1>4, <2>3 DEF StoreRevoked, Store
    <3>2. site'.writes = FALSE /\ site'.verified = "no" /\ site'.status = "revoked"
      BY <3>1 DEF TypeOK, Site
    <3> QED BY <3>2
         DEF Promises, VerifiedHere, WritesAreVerified, KeylessIsUnverified, KeylessIsOff
  <2> QED BY <2>2, <2>3
<1>5. ASSUME NEW s \in Slot, Ask(s) \/ Rotate(s) \/ Try(s) \/ Revoke(s) \/ BreakOff(s)
      PROVE  Promises'
  <2>1. site' = site /\ probed' = probed /\ overtaken' = overtaken
    BY <1>5 DEF Ask, Begin, Rotate, Try, Revoke, BreakOff, hist
  <2> QED BY <2>1, StoreNothing
<1>6. ASSUME NEW k \in Key, GraceEnds(k) PROVE Promises'
  BY <1>6, StoreNothing DEF GraceEnds, hist
<1>7. CASE UNCHANGED vars
  BY <1>7, StoreNothing DEF vars, hist
<1>8. CASE Delete
  BY <1>8 DEF Delete, NoSite, Promises, VerifiedHere, WritesAreVerified,
     KeylessIsUnverified, KeylessIsOff
<1>9. CASE Disable \/ Age
  <2>1. /\ site'.key = site.key /\ site'.status = site.status /\ site'.url = site.url
        /\ site'.writes \in {site.writes, FALSE}
        /\ site'.verified = "no" <=> site.verified = "no"
        /\ probed' = probed /\ overtaken' = overtaken
    BY <1>9 DEF Disable, Age, hist, TypeOK, Site
  <2> QED BY <2>1
       DEF Promises, VerifiedHere, WritesAreVerified, KeylessIsUnverified, KeylessIsOff
<1> QED
  BY <1>1, <1>2, <1>3, <1>4, <1>5, <1>6, <1>7, <1>8, <1>9,
     HandshakePromises, UpdatePromises, VerifyPromises, EnablePromises DEF Next, Finish

-----------------------------------------------------------------------------
(* The invariant, and what follows from it.                                *)

LEMMA NextInv == IInv /\ [Next]_vars => IInv'
<1> SUFFICES ASSUME IInv, [Next]_vars PROVE IInv'
  OBVIOUS
<1>1. TypeOK /\ Carries /\ Promises
  BY DEF IInv, Carries, Promises
<1>2. TypeOK'
  BY <1>1, NextType DEF Carries
<1>3. Carries'
  BY <1>1, NextCarries
<1>4. Promises'
  BY <1>1, NextPromises
<1> QED BY <1>2, <1>3, <1>4 DEF IInv, Carries, Promises

LEMMA Inductive == Spec => []IInv
<1>1. Init => IInv
  BY InitInv
<1>2. IInv /\ [Next]_vars => IInv'
  BY NextInv
<1> QED BY <1>1, <1>2, PTL DEF Spec

(* Every variable keeps its type.                                           *)
THEOREM TypeCorrect == Spec => []TypeOK
<1>1. IInv => TypeOK
  BY DEF IInv
<1> QED BY <1>1, Inductive, PTL

(* set_writes and the handlers around it: writes are on only for a bridge   *)
(* that has passed the write probe, or a verification, a switch or an       *)
(* update stored its outcome over another change to the site.               *)
THEOREM WritesAreAlwaysVerified == Spec => []WritesAreVerified
<1>1. IInv => WritesAreVerified
  BY DEF IInv
<1> QED BY <1>1, Inductive, PTL

(* revoke_credential: a site whose credential was dropped is neither        *)
(* connected nor written to, unless a handshake, or the switch, was         *)
(* overtaken by the revocation.                                             *)
THEOREM KeylessIsAlwaysOff == Spec => []KeylessIsOff
<1>1. IInv => KeylessIsOff
  BY DEF IInv
<1> QED BY <1>1, Inductive, PTL

-----------------------------------------------------------------------------
(* Revocation.  The keys requests carry have been issued; one a rotation    *)
(* has just brought back is known to nobody else; so a handshake that is    *)
(* under way at a revoked site has read another key.                        *)
Issued ==
  /\ site.key \in issued \cup {NoKey}
  /\ \A s \in Slot : /\ Does(s, "handshake", "asked") => req[s].key \in issued
                     /\ req[s].op = "replace" => req[s].arg \in issued
                     /\ Does(s, "rotate", "answered") => req[s].arg \in issued

Fresh ==
  \A r \in Slot : Does(r, "rotate", "answered") =>
    /\ site.key # req[r].arg
    /\ \A s \in Slot \ {r} :
         /\ Does(s, "handshake", "asked") => req[s].key # req[r].arg
         /\ req[s].op = "replace" => req[s].arg # req[r].arg
         /\ Does(s, "rotate", "answered") => req[s].arg # req[r].arg

RevokedIsOld ==
  site.status = "revoked" =>
    \A s \in Slot : Does(s, "handshake", "asked") => req[s].key # site.key

KInv == IInv /\ Issued /\ Fresh /\ RevokedIsOld

(* What a request that has ended leaves, and one that reads the site.       *)
LEMMA DoneReq ==
  ASSUME TypeOK, NEW s \in Slot, Done(s)
  PROVE  /\ req'[s].op = "idle"
         /\ \A r \in Slot \ {s} : req'[r] = req[r]
BY DEF Done, Idle, TypeOK

LEMMA ReadingReq ==
  ASSUME TypeOK, NEW s \in Slot, NEW op, NEW at, NEW arg, NEW doc,
         Reading(s, op, at, arg, doc)
  PROVE  /\ req'[s].op = op /\ req'[s].at = at
         /\ req'[s].key = doc.key /\ req'[s].arg = arg
         /\ \A r \in Slot \ {s} : req'[r] = req[r]
BY DEF Reading, TypeOK

LEMMA AnsweredReq ==
  ASSUME TypeOK, NEW s \in Slot, req[s] \in Req,
         req' = [req EXCEPT ![s].at = "answered"]
  PROVE  /\ req'[s].op = req[s].op /\ req'[s].arg = req[s].arg
         /\ \A r \in Slot \ {s} : req'[r] = req[r]
BY DEF TypeOK, Req

(* A request that ends changes nothing in play while the site keeps its     *)
(* key, and its status if that is "revoked".                                *)
LEMMA DoneKnown ==
  ASSUME KInv, NEW s \in Slot, Done(s), issued' = issued,
         site'.key \in {site.key, NoKey},
         site'.status = "revoked" => site.status = "revoked" \/ site'.key = NoKey
  PROVE  (Issued /\ Fresh /\ RevokedIsOld)'
<1>1. /\ req'[s].op = "idle"
      /\ \A r \in Slot \ {s} : req'[r] = req[r]
  BY DoneReq DEF KInv, IInv
<1>2. NoKey \notin Key
  BY SitesAssumption
<1>3. \A r \in Slot : Does(r, "rotate", "answered") => req[r].arg # NoKey
  BY <1>2 DEF KInv, IInv, ArgTyped
<1>4. \A r \in Slot : Does(r, "handshake", "asked") => req[r].key # NoKey
  BY DEF KInv, IInv, Keyed
<1>5. Issued'
  BY <1>1 DEF KInv, Issued, Does
<1>6. Fresh'
  BY <1>1, <1>3 DEF KInv, Fresh, Does
<1>7. RevokedIsOld'
  BY <1>1, <1>4 DEF KInv, RevokedIsOld, Does
<1> QED BY <1>5, <1>6, <1>7

LEMMA SameKnown ==
  ASSUME KInv, issued' = issued, req' = req, site'.key \in {site.key, NoKey},
         site'.status = "revoked" => site.status = "revoked"
  PROVE  (Issued /\ Fresh /\ RevokedIsOld)'
<1>1. NoKey \notin Key
  BY SitesAssumption
<1>2. \A r \in Slot : Does(r, "rotate", "answered") => req[r].arg # NoKey
  BY <1>1 DEF KInv, IInv, ArgTyped
<1>3. \A r \in Slot : Does(r, "handshake", "asked") => req[r].key # NoKey
  BY DEF KInv, IInv, Keyed
<1> QED BY <1>2, <1>3 DEF KInv, Issued, Fresh, RevokedIsOld, Does

(* A new key that is in play nowhere but in the slot that stores it, or is  *)
(* stored by an operator who gave it.                                       *)
LEMMA NewKeyKnown ==
  ASSUME KInv, NEW s \in Slot, NEW doc, Store(doc), Shake(s, doc), issued' = issued,
         doc.key = req[s].arg, req[s].arg \in issued,
         \/ Does(s, "rotate", "answered") /\ doc.status = site.status
         \/ req[s].op = "replace" /\ doc.status # "revoked"
  PROVE  (Issued /\ Fresh /\ RevokedIsOld)'
<1>1. TypeOK /\ Issued /\ Fresh /\ RevokedIsOld
  BY DEF KInv, IInv
<1>2. \A r \in Slot \ {s} : Does(r, "rotate", "answered") => req[r].arg # doc.key
  BY <1>1 DEF Fresh, Does
<1>3. CASE ~Exists \/ doc.status = "revoked"
  <2>1. /\ req'[s].op = "idle"
        /\ \A r \in Slot \ {s} : req'[r] = req[r]
    BY <1>1, <1>3, DoneReq DEF Shake
  <2>2. site' \in {site, doc}
    BY DEF Store
  <2>3. Issued'
    BY <1>1, <2>1, <2>2 DEF Issued, Does
  <2>4. Fresh'
    BY <1>1, <1>2, <2>1, <2>2 DEF Fresh, Does
  <2>5. CASE ~Exists
    <3>1. site' = site
      BY <2>5 DEF Store
    <3>2. RevokedIsOld'
      BY <1>1, <2>1, <3>1 DEF RevokedIsOld, Does
    <3> QED BY <2>3, <2>4, <3>2
  <2>6. CASE Exists
    <3>1. site' = doc /\ doc.status = "revoked" /\ Does(s, "rotate", "answered")
      BY <1>3, <2>6 DEF Store
    <3>2. \A r \in Slot \ {s} : Does(r, "handshake", "asked") => req[r].key # doc.key
      BY <1>1, <3>1 DEF Fresh
    <3>3. RevokedIsOld'
      BY <2>1, <3>1, <3>2 DEF RevokedIsOld, Does
    <3> QED BY <2>3, <2>4, <3>3
  <2> QED BY <2>3, <2>4, <2>5, <2>6
<1>4. CASE Exists /\ doc.status # "revoked"
  <2>1. /\ req'[s].op = "handshake" /\ req'[s].key = doc.key
        /\ \A r \in Slot \ {s} : req'[r] = req[r]
    BY <1>1, <1>4, ReadingReq DEF Shake
  <2>2. site' = doc
    BY <1>4 DEF Store
  <2>3. Issued'
    BY <1>1, <2>1, <2>2 DEF Issued, Does
  <2>4. Fresh'
    BY <1>1, <1>2, <2>1, <2>2 DEF Fresh, Does
  <2>5. RevokedIsOld'
    BY <1>4, <2>2 DEF RevokedIsOld
  <2> QED BY <2>3, <2>4, <2>5
<1> QED BY <1>3, <1>4

(* A request that begins: a handshake with the site's key while that is not *)
(* revoked, a given key that is no rotation's, or nothing in play.          *)
LEMMA BeginKnown ==
  ASSUME KInv, NEW s \in Slot, NEW op \in Op, NEW arg, Begin(s, op, arg),
         op = "replace" => arg \in Given
  PROVE  (Issued /\ Fresh /\ RevokedIsOld)'
<1>1. TypeOK /\ Issued /\ Fresh /\ RevokedIsOld
  BY DEF KInv, IInv
<1>2. /\ req'[s].op = op /\ req'[s].at = "asked"
      /\ req'[s].key = site.key /\ req'[s].arg = arg
      /\ \A r \in Slot \ {s} : req'[r] = req[r]
  BY <1>1, ReadingReq DEF Begin
<1>3. site' = site /\ issued' = issued
  BY DEF Begin, keys
<1>4. op = "handshake" => site.key # NoKey /\ site.status # "revoked"
  BY DEF Begin, Usable
<1>5. op = "replace" => /\ arg \in issued
                        /\ \A r \in Slot : Does(r, "rotate", "answered") => req[r].arg # arg
  BY <1>1 DEF Given, TypeOK
<1>6. Issued'
  BY <1>1, <1>2, <1>3, <1>4, <1>5 DEF Issued, Does
<1>7. Fresh'
  BY <1>1, <1>2, <1>3, <1>5 DEF Fresh, Does
<1>8. RevokedIsOld'
  BY <1>1, <1>2, <1>3, <1>4 DEF RevokedIsOld, Does
<1> QED BY <1>6, <1>7, <1>8

LEMMA RotateKnown ==
  ASSUME KInv, NEW s \in Slot, Rotate(s)
  PROVE  (Issued /\ Fresh /\ RevokedIsOld)'
<1>1. TypeOK /\ Issued /\ Fresh /\ RevokedIsOld
  BY DEF KInv, IInv
<1>2. NoKey \notin Key
  BY SitesAssumption
<1>3. CASE issued' = issued /\ Done(s)
  BY <1>3, DoneKnown DEF Rotate
<1>4. ASSUME NEW k \in Key \ issued, issued' = issued \cup {k},
             Reading(s, "rotate", "answered", k, req[s]) \/ Done(s)
      PROVE  (Issued /\ Fresh /\ RevokedIsOld)'
  <2>1. site' = site
    BY DEF Rotate
  <2>2. /\ req'[s].op = "idle" \/ (req'[s].op = "rotate" /\ req'[s].arg = k)
        /\ \A r \in Slot \ {s} : req'[r] = req[r]
    BY <1>1, <1>4, DoneReq, ReadingReq
  <2>3. Issued'
    BY <1>1, <1>4, <2>1, <2>2 DEF Issued, Does
  <2>4. site.key # k
    BY <1>1, <1>2 DEF Issued
  <2>5. \A r \in Slot : /\ Does(r, "handshake", "asked") => req[r].key # k
                        /\ req[r].op = "replace" => req[r].arg # k
                        /\ Does(r, "rotate", "answered") => req[r].arg # k
    BY <1>1 DEF Issued
  <2>6. Fresh'
    BY <1>1, <2>1, <2>2, <2>4, <2>5 DEF Fresh, Does
  <2>7. RevokedIsOld'
    BY <1>1, <2>1, <2>2 DEF RevokedIsOld, Does
  <2> QED BY <2>3, <2>6, <2>7
<1> QED BY <1>3, <1>4 DEF Rotate, keys

LEMMA NextKnown ==
  ASSUME KInv, [Next]_vars
  PROVE  (Issued /\ Fresh /\ RevokedIsOld)'
<1>0. TypeOK /\ ArgTyped /\ Issued /\ Fresh /\ RevokedIsOld
  BY DEF KInv, IInv
<1>1. ASSUME NEW s \in Slot, NEW b \in Bridge, NEW k \in Given, Create(s, b, k)
      PROVE  (Issued /\ Fresh /\ RevokedIsOld)'
  <2>1. k \in issued /\ issued' = issued
    BY <1>0, <1>1 DEF Create, Given, keys, TypeOK
  <2>2. site'.key = k /\ site'.status = "unverified"
    BY <1>1 DEF Create, NewSite
  <2>3. /\ req'[s].op = "handshake" /\ req'[s].key = k
        /\ \A r \in Slot \ {s} : req'[r].op = "idle"
    BY <1>0, <1>1, ReadingReq DEF Create, NewSite, Idle
  <2> QED BY <2>1, <2>2, <2>3 DEF Issued, Fresh, RevokedIsOld, Does
<1>2. ASSUME NEW s \in Slot, Ask(s) PROVE (Issued /\ Fresh /\ RevokedIsOld)'
  BY <1>2, BeginKnown DEF Ask, Op
<1>3. ASSUME NEW s \in Slot, Handshake(s) \/ Update(s) \/ Verify(s) \/ Enable(s)
      PROVE  (Issued /\ Fresh /\ RevokedIsOld)'
  <2>1. Done(s) /\ issued' = issued
    BY <1>3 DEF Handshake, Update, Verify, Enable, keys
  <2>2. site'.key = site.key /\ (site'.status = "revoked" => site.status = "revoked")
    <3>1. CASE Handshake(s)
      <4>1. \A doc \in Outcomes(s) \cup {[site EXCEPT !.status = "unreachable"]} :
              doc.key = site.key /\ doc.status # "revoked"
        BY <1>0 DEF Outcomes, TypeOK, Site
      <4> QED BY <3>1, <4>1 DEF Handshake, Store
    <3>2. CASE Update(s)
      BY <1>0, <3>2 DEF Update, Store, TypeOK, Site
    <3>3. CASE Verify(s)
      BY <1>0, <3>3 DEF Verify, Store, TypeOK, Site
    <3>4. CASE Enable(s)
      BY <1>0, <3>4 DEF Enable, Store, TypeOK, Site
    <3> QED BY <1>3, <3>1, <3>2, <3>3, <3>4
  <2> QED BY <2>1, <2>2, DoneKnown
<1>4. ASSUME NEW s \in Slot, StoreRotated(s) PROVE (Issued /\ Fresh /\ RevokedIsOld)'
  <2> DEFINE doc == [site EXCEPT !.key = req[s].arg]
  <2>1. doc.key = req[s].arg /\ doc.status = site.status
    BY <1>0 DEF TypeOK, Site
  <2>2. Does(s, "rotate", "answered") /\ req[s].arg \in issued
    BY <1>0, <1>4 DEF StoreRotated, Issued
  <2>3. Store(doc) /\ Shake(s, doc) /\ issued' = issued
    BY <1>4 DEF StoreRotated, keys
  <2> HIDE DEF doc
  <2> QED BY <2>1, <2>2, <2>3, NewKeyKnown
<1>5. ASSUME NEW s \in Slot, StoreReplaced(s) PROVE (Issued /\ Fresh /\ RevokedIsOld)'
  <2> DEFINE doc == [site EXCEPT !.key = req[s].arg, !.status = "unverified"]
  <2>1. doc.key = req[s].arg /\ doc.status # "revoked"
    BY <1>0 DEF TypeOK, Site
  <2>2. req[s].op = "replace" /\ req[s].arg \in issued
    BY <1>0, <1>5 DEF StoreReplaced, Issued, Does
  <2>3. Store(doc) /\ Shake(s, doc) /\ issued' = issued
    BY <1>5 DEF StoreReplaced, keys
  <2> HIDE DEF doc
  <2> QED BY <2>1, <2>2, <2>3, NewKeyKnown
<1>6. ASSUME NEW s \in Slot, Try(s) \/ Revoke(s) PROVE (Issued /\ Fresh /\ RevokedIsOld)'
  <2>1. site' = site /\ issued' = issued
    BY <1>6 DEF Try, Revoke, keys
  <2>2. req[s].op \in {"replace", "revoke"} /\ req[s] \in Req
    BY <1>0, <1>6, DoesType DEF Try, Revoke, Does, Op
  <2>3. CASE Done(s)
    BY <2>1, <2>3, DoneKnown
  <2>4. CASE req' = [req EXCEPT ![s].at = "answered"]
    <3>1. /\ req'[s].op = req[s].op /\ req'[s].arg = req[s].arg
          /\ \A r \in Slot \ {s} : req'[r] = req[r]
      BY <1>0, <2>2, <2>4, AnsweredReq
    <3>2. Issued'
      BY <1>0, <2>1, <2>2, <3>1 DEF Issued, Does
    <3>3. Fresh'
      BY <1>0, <2>1, <2>2, <3>1 DEF Fresh, Does
    <3>4. RevokedIsOld'
      BY <1>0, <2>1, <2>2, <3>1 DEF RevokedIsOld, Does
    <3> QED BY <3>2, <3>3, <3>4
  <2> QED BY <1>6, <2>3, <2>4 DEF Try, Revoke
<1>7. ASSUME NEW s \in Slot, StoreRevoked(s) PROVE (Issued /\ Fresh /\ RevokedIsOld)'
  <2>1. Done(s) /\ issued' = issued
    BY <1>7 DEF StoreRevoked, keys
  <2>2. site' = site \/ site'.key = NoKey
    BY <1>0, <1>7 DEF StoreRevoked, Store, TypeOK, Site
  <2> QED BY <2>1, <2>2, DoneKnown
<1>9. ASSUME NEW s \in Slot, BreakOff(s) PROVE (Issued /\ Fresh /\ RevokedIsOld)'
  BY <1>9, DoneKnown DEF BreakOff, keys
<1>8. CASE Delete \/ Disable \/ Age \/ (\E k \in Key : GraceEnds(k)) \/ UNCHANGED vars
  <2>1. issued' = issued /\ req' = req
    BY <1>8 DEF Delete, Disable, Age, GraceEnds, vars, keys
  <2>2. /\ site'.key \in {site.key, NoKey}
        /\ site'.status = "revoked" => site.status = "revoked"
    BY <1>0, <1>8 DEF Delete, NoSite, Disable, Age, GraceEnds, vars, TypeOK, Site
  <2> QED BY <2>1, <2>2, SameKnown
<1> QED
  BY <1>1, <1>2, <1>3, <1>4, <1>5, <1>6, <1>7, <1>8, <1>9, RotateKnown DEF Next, Finish

LEMMA InitKnown == Init => Issued /\ Fresh /\ RevokedIsOld
<1> SUFFICES ASSUME Init PROVE Issued /\ Fresh /\ RevokedIsOld
  OBVIOUS
<1>1. site.key = NoKey /\ site.status = "absent"
  BY DEF Init, NoSite
<1>2. \A s \in Slot : req[s].op = "idle"
  BY DEF Init, Idle
<1> QED BY <1>1, <1>2 DEF Issued, Fresh, RevokedIsOld, Does

(* Who brings a revoked site back, one step per action.                     *)
LEMMA WhoRevives ==
  ASSUME KInv, Next, site.status = "revoked", site'.status \notin {"revoked", "absent"}
  PROVE  \E s \in Slot : req[s].op \in {"replace", "update"}
                         \/ (req[s].op = "handshake" /\ Changed(s))
<1>0. TypeOK
  BY DEF KInv, IInv
<1>1. ASSUME NEW s \in Slot, Handshake(s) PROVE req[s].op = "handshake" /\ Changed(s)
  BY <1>1 DEF Handshake, KInv, RevokedIsOld, Does, Changed
<1>2. ASSUME NEW s \in Slot, Update(s) \/ Try(s) \/ StoreReplaced(s)
      PROVE  req[s].op \in {"replace", "update"}
  BY <1>2 DEF Update, Try, StoreReplaced, Does
<1>3. ASSUME NEW s \in Slot, \/ Ask(s) \/ Verify(s) \/ Enable(s) \/ Rotate(s)
                             \/ StoreRotated(s) \/ Revoke(s) \/ StoreRevoked(s)
                             \/ BreakOff(s)
      PROVE  site'.status = "revoked"
  <2>1. CASE Ask(s) \/ Rotate(s) \/ Revoke(s) \/ BreakOff(s)
    BY <2>1 DEF Ask, Begin, Rotate, Revoke, BreakOff
  <2>2. CASE Verify(s)
    BY <1>0, <2>2 DEF Verify, Store, TypeOK, Site
  <2>3. CASE Enable(s)
    BY <1>0, <2>3 DEF Enable, Store, TypeOK, Site
  <2>4. CASE StoreRotated(s)
    BY <1>0, <2>4 DEF StoreRotated, Store, TypeOK, Site
  <2>5. CASE StoreRevoked(s)
    BY <1>0, <2>5 DEF StoreRevoked, Store, TypeOK, Site
  <2> QED BY <1>3, <2>1, <2>2, <2>3, <2>4, <2>5
<1>4. ASSUME NEW s \in Slot, NEW b \in Bridge, NEW k \in Given, Create(s, b, k) PROVE FALSE
  BY <1>4 DEF Create, Exists
<1>5. CASE Delete \/ Disable \/ Age \/ \E k \in Key : GraceEnds(k)
  BY <1>0, <1>5 DEF Delete, NoSite, Disable, Age, GraceEnds, TypeOK, Site
<1> QED BY <1>1, <1>2, <1>3, <1>4, <1>5 DEF Next, Finish

(* revoke_credential: the status "revoked" ends only by a new credential,   *)
(* another endpoint, or a handshake that read the site before.              *)
THEOREM RevokedAlwaysStays == Spec => RevokedStays
<1>1. Init => KInv
  BY InitInv, InitKnown DEF KInv
<1>2. KInv /\ [Next]_vars => KInv'
  BY NextInv, NextKnown DEF KInv
<1>3. KInv /\ [Next]_vars =>
        [ site.status = "revoked" /\ site'.status \notin {"revoked", "absent"} =>
            \E s \in Slot : req[s].op \in {"replace", "update"}
                            \/ (req[s].op = "handshake" /\ Changed(s)) ]_vars
  BY WhoRevives
<1> QED BY <1>1, <1>2, <1>3, PTL DEF Spec, RevokedStays

-----------------------------------------------------------------------------
(* Rotation.  The key a rotation has brought back is accepted, will not run *)
(* out, and is used by no request until it is stored; a stored key that is  *)
(* running out is one whose rotation is about to store another, or lost.    *)
Private ==
  \A s \in Slot : req[s].op \in {"rotate", "revoke"} =>
    /\ req[s].key \in issued \cup {NoKey}
    /\ \A r \in Slot : Does(r, "rotate", "answered") => req[s].key # req[r].arg

Brought ==
  \A r \in Slot : Does(r, "rotate", "answered") => Good(req[r].url, req[r].arg)

(* The bridge that was asked knows the credential it was shown.             *)
Tried ==
  \A r \in Slot : Does(r, "replace", "answered") => req[r].arg.at = req[r].url

Graced ==
  works /\ site.key \in grace =>
    \/ site.key \in lost
    \/ \E s \in Slot : Does(s, "rotate", "answered") /\ req[s].key = site.key

Gone == works => Exists

RotationInv == Private /\ Brought /\ Tried /\ Graced /\ Gone /\ KeyStaysValid

(* s does nothing that excuses the stored key.                              *)
Silent(s) == ~Does(s, "rotate", "answered") /\ ~Does(s, "revoke", "answered")

(* A step that leaves the bridges' keys alone: the site's key stays and no  *)
(* excuse of it is forgotten, or what is stored is accepted for good.       *)
LEMMA KeysAlone ==
  ASSUME KInv, RotationInv, UNCHANGED keys, lost \subseteq lost',
         works' => Exists',
         works' => \/ Good(site'.url, site'.key)
                   \/ /\ works /\ site'.key = site.key /\ site'.url = site.url
                      /\ \A r \in Slot : \/ req'[r] = req[r] \/ Silent(r)
                                         \/ req[r].key \in lost',
         \A r \in Slot :
           \/ req'[r] = req[r]
           \/ /\ req'[r].op \notin {"rotate", "revoke"}
              /\ req'[r].op = "replace" /\ req'[r].at = "answered" =>
                   req'[r].arg.at = req'[r].url
  PROVE  RotationInv'
<1>1. UNCHANGED <<issued, valid, grace>>
  BY DEF keys
<1>2. Private'
  BY <1>1 DEF RotationInv, Private, Does
<1>3. Brought'
  BY <1>1 DEF RotationInv, Brought, Good, Accepts, Does
<1>4. Tried'
  BY DEF RotationInv, Tried, Does
<1>5. Gone'
  BY DEF Gone
<1>6. CASE Good(site'.url, site'.key) \/ ~works'
  BY <1>1, <1>2, <1>3, <1>4, <1>5, <1>6
     DEF RotationInv, Graced, KeyStaysValid, Good, Accepts
<1>7. CASE /\ works /\ site'.key = site.key /\ site'.url = site.url
           /\ \A r \in Slot : req'[r] = req[r] \/ Silent(r) \/ req[r].key \in lost'
  <2>1. Graced'
    BY <1>1, <1>7 DEF RotationInv, Graced, Silent, Does
  <2>2. KeyStaysValid'
    BY <1>1, <1>7 DEF RotationInv, KeyStaysValid, Accepts, Silent, Does
  <2> QED BY <1>2, <1>3, <1>4, <1>5, <2>1, <2>2 DEF RotationInv
<1> QED BY <1>6, <1>7

LEMMA CreateRotation ==
  ASSUME KInv, RotationInv, NEW s \in Slot, NEW b \in Bridge, NEW k \in Given,
         Create(s, b, k)
  PROVE  RotationInv'
<1>1. TypeOK
  BY DEF KInv, IInv
<1>2. /\ UNCHANGED keys /\ lost' = lost
      /\ site'.key = k /\ site'.url = b /\ site'.status = "unverified"
      /\ works' = Good(b, k)
  BY DEF Create, NewSite
<1>3. \A r \in Slot : req'[r].op \in {"handshake", "idle"}
  BY <1>1, ReadingReq DEF Create, NewSite, Idle
<1> QED BY <1>2, <1>3, KeysAlone DEF Exists

(* A request that begins knows no key but the site's.                       *)
LEMMA BeginRotation ==
  ASSUME KInv, RotationInv, NEW s \in Slot, NEW op \in Op, NEW arg, Begin(s, op, arg)
  PROVE  RotationInv'
<1>1. TypeOK /\ Issued /\ Fresh
  BY DEF KInv, IInv
<1>2. /\ UNCHANGED <<site, issued, valid, grace, works, lost>>
      /\ req[s].op = "idle" /\ req'[s].op = op /\ req'[s].at = "asked"
      /\ req'[s].key = site.key
      /\ \A r \in Slot \ {s} : req'[r] = req[r]
  BY <1>1, ReadingReq DEF Begin, Idle, keys, hist
<1>3. Private'
  <2>1. site.key \in issued \cup {NoKey}
    BY <1>1 DEF Issued
  <2>2. \A r \in Slot : Does(r, "rotate", "answered") => site.key # req[r].arg
    BY <1>1 DEF Fresh
  <2> QED BY <1>2, <2>1, <2>2 DEF RotationInv, Private, Does
<1>4. Brought' /\ Tried'
  BY <1>2 DEF RotationInv, Brought, Tried, Good, Accepts, Does
<1>5. Graced' /\ Gone' /\ KeyStaysValid'
  BY <1>2 DEF RotationInv, Graced, Gone, Exists, KeyStaysValid, Accepts, Does
<1> QED BY <1>3, <1>4, <1>5 DEF RotationInv

(* The bridge gives a new key, and the calling one starts to run out.       *)
LEMMA RotateRotation ==
  ASSUME KInv, RotationInv, NEW s \in Slot, Rotate(s)
  PROVE  RotationInv'
<1>1. TypeOK /\ Issued /\ NoKey \notin Key
  BY SitesAssumption DEF KInv, IInv
<1>2. UNCHANGED <<site, works>> /\ req[s].op = "rotate" /\ req[s].at = "asked"
  BY DEF Rotate, Does
<1>3. CASE Done(s) /\ UNCHANGED <<keys, fails, lost>>
  <2>1. /\ req'[s].op = "idle"
        /\ \A r \in Slot \ {s} : req'[r] = req[r]
    BY <1>1, <1>3, DoneReq
  <2>2. Silent(s)
    BY <1>2 DEF Silent, Does
  <2>3. works' => Exists'
    BY <1>2 DEF RotationInv, Gone, Exists
  <2> QED BY <1>2, <1>3, <2>1, <2>2, <2>3, KeysAlone
<1>4. ASSUME NEW k \in Key \ issued, k.at = req[s].url, issued' = issued \cup {k},
             Issue(s, k),
             \/ Reading(s, "rotate", "answered", k, req[s]) /\ UNCHANGED <<fails, lost>>
             \/ Done(s) /\ Fail /\ lost' = lost \cup {req[s].key}
      PROVE  RotationInv'
  <2>1. /\ \/ /\ req'[s].op = "rotate" /\ req'[s].at = "answered" /\ lost' = lost
              /\ req'[s].key = req[s].key /\ req'[s].arg = k /\ req'[s].url = req[s].url
           \/ req'[s].op = "idle" /\ lost' = lost \cup {req[s].key}
        /\ \A r \in Slot \ {s} : req'[r] = req[r]
    <3>1. CASE Reading(s, "rotate", "answered", k, req[s]) /\ UNCHANGED <<fails, lost>>
      BY <1>1, <3>1, ReadingReq DEF Reading, TypeOK
    <3>2. CASE Done(s) /\ lost' = lost \cup {req[s].key}
      BY <1>1, <3>2, DoneReq
    <3> QED BY <1>4, <3>1, <3>2
  <2>2. valid' = valid \cup {k} /\ grace' = grace \cup {req[s].key}
    BY <1>4 DEF Issue
  <2>3. k \notin issued /\ k # NoKey /\ k \notin grace /\ req[s].key # k /\ site.key # k
    BY <1>1, <1>2 DEF RotationInv, Private, Issued, TypeOK
  <2>4. \A r \in Slot : req[r].op \in {"rotate", "revoke"} => req[r].key # k
    BY <1>1 DEF RotationInv, Private
  <2>5. Private'
    BY <1>2, <1>4, <2>1, <2>3, <2>4 DEF RotationInv, Private, Does
  <2>6. Brought'
    BY <1>2, <1>4, <2>1, <2>2, <2>3 DEF RotationInv, Brought, Private, Good, Accepts, Does
  <2>7. Tried'
    BY <2>1 DEF RotationInv, Tried, Does
  <2>8. Graced'
    BY <1>2, <2>1, <2>2 DEF RotationInv, Graced, Does
  <2>9. Gone' /\ KeyStaysValid'
    BY <1>2, <2>1, <2>2 DEF RotationInv, Gone, Exists, KeyStaysValid, Accepts, Does
  <2> QED BY <2>5, <2>6, <2>7, <2>8, <2>9 DEF RotationInv
<1> QED BY <1>3, <1>4 DEF Rotate

(* The new key takes the place of the old, at the bridge that gave it.      *)
LEMMA StoreRotatedRotation ==
  ASSUME KInv, RotationInv, NEW s \in Slot, StoreRotated(s)
  PROVE  RotationInv'
<1>1. TypeOK
  BY DEF KInv, IInv
<1> DEFINE doc == [site EXCEPT !.key = req[s].arg]
<1>2. /\ doc.key = req[s].arg /\ doc.url = site.url /\ doc.status = site.status
  BY <1>1 DEF TypeOK, Site
<1>3. /\ Store(doc) /\ Shake(s, doc) /\ UNCHANGED <<keys, lost>>
      /\ works' = (Exists /\ req[s].url = site.url) /\ Does(s, "rotate", "answered")
  BY DEF StoreRotated
<1> HIDE DEF doc
<1>4. /\ req'[s].op \in {"idle", "handshake"}
      /\ \A r \in Slot \ {s} : req'[r] = req[r]
  BY <1>1, <1>3, DoneReq, ReadingReq DEF Shake
<1>5. Good(req[s].url, req[s].arg)
  BY <1>3 DEF RotationInv, Brought
<1>6. works' => site' = doc /\ site'.url = req[s].url /\ site'.key = req[s].arg
  BY <1>2, <1>3 DEF Store
<1>7. works' => Exists'
  BY <1>2, <1>3, <1>6 DEF Exists
<1> QED BY <1>3, <1>4, <1>5, <1>6, <1>7, KeysAlone

(* A credential that somebody gave replaces the stored one.                 *)
LEMMA StoreReplacedRotation ==
  ASSUME KInv, RotationInv, NEW s \in Slot, StoreReplaced(s)
  PROVE  RotationInv'
<1>1. TypeOK
  BY DEF KInv, IInv
<1> DEFINE doc == [site EXCEPT !.key = req[s].arg, !.status = "unverified"]
<1>2. /\ doc.key = req[s].arg /\ doc.url = site.url /\ doc.status = "unverified"
  BY <1>1 DEF TypeOK, Site
<1>3. /\ Store(doc) /\ Shake(s, doc) /\ UNCHANGED <<keys, lost>>
      /\ works' = (Exists /\ req[s].url = site.url /\ req[s].arg \in valid \ grace)
      /\ Does(s, "replace", "answered")
  BY DEF StoreReplaced
<1> HIDE DEF doc
<1>4. /\ req'[s].op \in {"idle", "handshake"}
      /\ \A r \in Slot \ {s} : req'[r] = req[r]
  BY <1>1, <1>3, DoneReq, ReadingReq DEF Shake
<1>5. req[s].arg.at = req[s].url
  BY <1>3 DEF RotationInv, Tried
<1>6. works' => site' = doc /\ Good(site'.url, site'.key)
  BY <1>2, <1>3, <1>5 DEF Store, Good, Accepts
<1>7. works' => Exists'
  BY <1>2, <1>6 DEF Exists
<1> QED BY <1>3, <1>4, <1>6, <1>7, KeysAlone

(* A revocation ends the key it has read, which is no rotation's new one.   *)
LEMMA RevokeRotation ==
  ASSUME KInv, RotationInv, NEW s \in Slot, Revoke(s)
  PROVE  RotationInv'
<1>1. TypeOK
  BY DEF KInv, IInv
<1>2. /\ UNCHANGED <<site, issued, works, lost>> /\ req[s].op = "revoke"
      /\ req'[s].op = "revoke" /\ req'[s].at = "answered" /\ req'[s].key = req[s].key
      /\ \A r \in Slot \ {s} : req'[r] = req[r]
  <2>1. Does(s, "revoke", "asked") /\ req' = [req EXCEPT ![s].at = "answered"]
    BY DEF Revoke
  <2>2. req[s].op = "revoke" /\ req[s] \in Req
    BY <1>1, <2>1, DoesType DEF Does, Op
  <2> QED BY <1>1, <2>1, <2>2 DEF Revoke, Req, TypeOK, hist
<1>3. valid \ {req[s].key} \subseteq valid' /\ grace' \subseteq grace
  BY <1>1 DEF Revoke
<1>4. Private'
  BY <1>2 DEF RotationInv, Private, Does
<1>5. Brought' /\ Tried'
  BY <1>2, <1>3 DEF RotationInv, Brought, Tried, Private, Good, Accepts, Does
<1>6. Graced'
  BY <1>2, <1>3 DEF RotationInv, Graced, Does
<1>7. Gone' /\ KeyStaysValid'
  BY <1>2, <1>3 DEF RotationInv, Gone, Exists, KeyStaysValid, Accepts, Does
<1> QED BY <1>4, <1>5, <1>6, <1>7 DEF RotationInv

(* The stored key does not run out: its rotation would be storing another.  *)
LEMMA GraceRotation ==
  ASSUME KInv, RotationInv, NEW k \in Key, GraceEnds(k)
  PROVE  RotationInv'
<1>1. /\ UNCHANGED <<site, issued, req, works, lost>> /\ k \in grace
      /\ valid' = valid \ {k} /\ grace' = grace \ {k}
      /\ ~\E s \in Slot : Does(s, "rotate", "answered") /\ req[s].key = k
  BY DEF GraceEnds, hist
<1>2. Private' /\ Brought' /\ Tried'
  BY <1>1 DEF RotationInv, Private, Brought, Tried, Good, Accepts, Does
<1>3. Graced' /\ Gone'
  BY <1>1 DEF RotationInv, Graced, Gone, Exists, Does
<1>4. KeyStaysValid'
  <2>1. site.key = k /\ works => site.key \in lost
    BY <1>1 DEF RotationInv, Graced
  <2> QED BY <1>1, <2>1 DEF RotationInv, KeyStaysValid, Accepts, Does
<1> QED BY <1>2, <1>3, <1>4 DEF RotationInv

(* A request that ends without a new key: the key stays where it is, or is  *)
(* judged again because the address changed.                                *)
LEMMA EndRotation ==
  ASSUME KInv, RotationInv, NEW s \in Slot,
         \/ Handshake(s) \/ Update(s) \/ Verify(s) \/ Enable(s)
         \/ StoreRevoked(s) \/ BreakOff(s)
  PROVE  RotationInv'
<1>1. TypeOK
  BY DEF KInv, IInv
<1>2. /\ UNCHANGED keys /\ Done(s) /\ lost \subseteq lost'
  BY DEF Handshake, Update, Verify, Enable, StoreRevoked, BreakOff
<1>3. /\ req'[s].op = "idle"
      /\ \A r \in Slot \ {s} : req'[r] = req[r]
  BY <1>1, <1>2, DoneReq
<1>4. CASE StoreRevoked(s)
  BY <1>2, <1>3, <1>4, KeysAlone DEF StoreRevoked
<1>5. CASE BreakOff(s)
  <2>1. site' = site /\ works' = works /\ (Silent(s) \/ req[s].key \in lost')
    BY <1>5 DEF BreakOff, Silent, Does
  <2>2. works' => Exists'
    BY <2>1 DEF RotationInv, Gone, Exists
  <2> QED BY <1>2, <1>3, <2>1, <2>2, KeysAlone
<1>6. CASE Handshake(s) \/ Update(s) \/ Verify(s) \/ Enable(s)
  <2>1. Silent(s)
    BY <1>6 DEF Handshake, Update, Verify, Enable, Silent, Does
  <2>2. CASE ~Exists
    <3>1. ~works'
      BY <1>6, <2>2 DEF RotationInv, Gone, Handshake, Update, Verify, Enable
    <3> QED BY <1>2, <1>3, <3>1, KeysAlone
  <2>3. CASE Exists /\ Update(s)
    <3>1. /\ site'.key = site.key /\ site'.url = req[s].arg
          /\ site'.status \in {site.status, "unverified"}
      BY <1>1, <2>3 DEF Update, Store, TypeOK, Site
    <3>2. works' => (works /\ site'.url = site.url) \/ Good(site'.url, site'.key)
      BY <2>3, <3>1 DEF Update
    <3>3. works' => Exists'
      BY <2>3, <3>1 DEF Exists
    <3> QED BY <1>2, <1>3, <2>1, <3>1, <3>2, <3>3, KeysAlone
  <2>4. CASE Exists /\ (Handshake(s) \/ Verify(s) \/ Enable(s))
    <3>1. site'.key = site.key /\ site'.url = site.url /\ site'.status # "absent"
      <4>1. CASE Handshake(s)
        <5>1. \A doc \in Outcomes(s) \cup {[site EXCEPT !.status = "unreachable"]} :
                doc.key = site.key /\ doc.url = site.url /\ doc.status # "absent"
          BY <1>1 DEF Outcomes, TypeOK, Site
        <5> QED BY <2>4, <4>1, <5>1 DEF Handshake, Store
      <4>2. CASE Verify(s)
        BY <1>1, <2>4, <4>2 DEF Verify, Store, Exists, TypeOK, Site
      <4>3. CASE Enable(s)
        BY <1>1, <2>4, <4>3 DEF Enable, Store, Exists, TypeOK, Site
      <4> QED BY <2>4, <4>1, <4>2, <4>3
    <3>2. works' = works /\ Exists'
      BY <2>4, <3>1 DEF Handshake, Verify, Enable, Exists
    <3> QED BY <1>2, <1>3, <2>1, <3>1, <3>2, KeysAlone
  <2> QED BY <1>6, <2>2, <2>3, <2>4
<1> QED BY <1>4, <1>5, <1>6

(* The bridge asked judges the credential that was given.                   *)
LEMMA TryRotation ==
  ASSUME KInv, RotationInv, NEW s \in Slot, Try(s)
  PROVE  RotationInv'
<1>1. TypeOK
  BY DEF KInv, IInv
<1>2. UNCHANGED <<keys, site, works, lost>> /\ req[s].op = "replace" /\ req[s] \in Req
  BY <1>1, DoesType DEF Try, hist, Does, Op
<1>3. Silent(s)
  BY <1>2 DEF Silent, Does
<1>4. /\ \/ req'[s].op = "idle"
         \/ req'[s].op = "replace" /\ req'[s].arg.at = req'[s].url
      /\ \A r \in Slot \ {s} : req'[r] = req[r]
  <2>1. CASE Done(s)
    BY <1>1, <2>1, DoneReq
  <2>2. CASE Accepts(req[s].url, req[s].arg) /\ req' = [req EXCEPT ![s].at = "answered"]
    BY <1>1, <1>2, <2>2, AnsweredReq DEF Accepts, TypeOK, Req
  <2> QED BY <2>1, <2>2 DEF Try
<1>5. works' => Exists'
  BY <1>2 DEF RotationInv, Gone, Exists
<1> QED BY <1>2, <1>3, <1>4, <1>5, KeysAlone

LEMMA NextRotation ==
  ASSUME KInv, RotationInv, [Next]_vars
  PROVE  RotationInv'
<1>1. TypeOK
  BY DEF KInv, IInv
<1>2. ASSUME NEW s \in Slot, Ask(s) PROVE RotationInv'
  BY <1>2, BeginRotation DEF Ask, Op
<1>3. CASE Delete
  BY <1>3, KeysAlone DEF Delete
<1>4. CASE Disable \/ Age \/ UNCHANGED vars
  <2>1. UNCHANGED <<keys, req, works, lost>>
    BY <1>4 DEF Disable, Age, vars, hist
  <2>2. site'.key = site.key /\ site'.url = site.url /\ site'.status = site.status
    BY <1>1, <1>4 DEF Disable, Age, vars, TypeOK, Site
  <2>3. works' => Exists'
    BY <2>1, <2>2 DEF RotationInv, Gone, Exists
  <2> QED BY <2>1, <2>2, <2>3, KeysAlone
<1> QED
  BY <1>2, <1>3, <1>4, CreateRotation, RotateRotation, StoreRotatedRotation, TryRotation,
     StoreReplacedRotation, RevokeRotation, GraceRotation, EndRotation DEF Next, Finish

LEMMA InitRotation == Init => RotationInv
<1> SUFFICES ASSUME Init PROVE RotationInv
  OBVIOUS
<1>1. ~works
  BY DEF Init
<1>2. \A s \in Slot : req[s].op = "idle"
  BY DEF Init, Idle
<1> QED
  BY <1>1, <1>2 DEF RotationInv, Private, Brought, Tried, Graced, Gone, KeyStaysValid, Does

(* rotate_credential: once the bridge at the site's address accepts the     *)
(* stored key it goes on accepting it, whatever fails, stops or overlaps;   *)
(* unless a rotation or revocation of this very key was not stored, or is   *)
(* a revocation about to be.                                                *)
THEOREM KeyAlwaysStaysValid == Spec => []KeyStaysValid
<1>1. Init => KInv /\ RotationInv
  BY InitInv, InitKnown, InitRotation DEF KInv
<1>2. KInv /\ RotationInv /\ [Next]_vars => (KInv /\ RotationInv)'
  BY NextInv, NextKnown, NextRotation DEF KInv
<1>3. RotationInv => KeyStaysValid
  BY DEF RotationInv
<1> QED BY <1>1, <1>2, <1>3, PTL DEF Spec
=============================================================================

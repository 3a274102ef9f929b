--------------------------------- MODULE Sites ---------------------------------
(***************************************************************************)
(* A managed site in the control plane: its bridge address, credential,    *)
(* connection status, write verification and the switch that lets it be    *)
(* written; and the keys its bridges accept.  A request reads the site     *)
(* once, talks to the bridge with what it read, and stores the outcome     *)
(* without looking again.                                                  *)
(***************************************************************************)
EXTENDS Naturals, FiniteSets

CONSTANTS
  Bridge,    \* bridges a site can point to
  Slot,      \* requests under way at the same time
  NoKey,     \* no credential is stored
  MaxKey,    \* bound: keys a bridge issues
  MaxAsk,    \* bound: requests, registrations among them
  MaxFail    \* bound: failed calls, lost answers, requests that break off

Key == [at : Bridge, n : 1..MaxKey]

ASSUME SitesAssumption ==
  /\ NoKey \notin Key
  /\ MaxKey \in Nat \ {0} /\ MaxAsk \in Nat /\ MaxFail \in Nat

VARIABLES
  site,      \* the site's document
  issued,    \* keys the bridges have given out
  valid,     \* those they accept
  grace,     \* those of them that run out after a rotation
  req,       \* per slot: the request under way and what it has read
  asks,      \* requests so far
  fails,     \* failures so far
  probed,    \* history: the bridge the last stored verification was made on
  overtaken, \* history: kinds of request that stored an outcome although the
             \* site had changed since they read it
  works,     \* history: the bridge at the site's address accepted the stored
             \* key, for good, when the later of the two was stored
  lost       \* history: keys a bridge rotated or revoked without the control
             \* plane storing it

keys == <<issued, valid, grace>>
hist == <<probed, overtaken, works, lost>>
vars == <<site, keys, req, asks, fails, hist>>

Status == {"absent", "unverified", "connected", "degraded", "unreachable", "revoked"}
Op     == {"handshake", "verify", "enable", "update", "rotate", "replace", "revoke"}
Site   == [url : Bridge, status : Status, key : Key \cup {NoKey},
           writes : BOOLEAN, verified : {"no", "fresh", "stale"}]
Idle   == [op |-> "idle"]
\* arg: the credential or bridge given; new: the credential a rotation issued.
Req    == [op : Op, at : {"asked", "answered"}, url : Bridge,
           key : Key \cup {NoKey}, arg : Bridge \cup Key \cup {NoKey}]

TypeOK ==
  /\ site \in Site
  /\ issued \subseteq Key /\ valid \subseteq issued /\ grace \subseteq valid
  /\ req \in [Slot -> Req \cup {Idle}]
  /\ asks \in 0..MaxAsk /\ fails \in 0..MaxFail
  /\ probed \in Bridge \cup {NoKey}
  /\ overtaken \subseteq {"trust", "connection"}
  /\ works \in BOOLEAN /\ lost \subseteq Key \cup {NoKey}

Exists == site.status # "absent"
\* get_site_and_client gives a client.
Usable == Exists /\ site.status # "revoked" /\ site.key # NoKey
\* The bridge at u accepts k.
Accepts(u, k) == k \in valid /\ k.at = u
\* ... and no rotation has set its end.
Good(u, k) == Accepts(u, k) /\ k \notin grace
Fail    == fails < MaxFail /\ fails' = fails + 1

\* s does op with what it now reads of the site.
Reading(s, op, at, arg, doc) ==
  req' = [req EXCEPT ![s] = [op |-> op, at |-> at, url |-> doc.url,
                             key |-> doc.key, arg |-> arg]]
Done(s)  == req' = [req EXCEPT ![s] = Idle]
Does(s, op, at) == req[s].op = op /\ req[s].at = at

\* The site is no longer what s read.
Changed(s) == req[s].url # site.url \/ req[s].key # site.key
\* s stored what it should not have if the site had been read again.
Note(kind, stale) == overtaken' = IF stale THEN overtaken \cup {kind} ELSE overtaken

\* update_one with $set: of a deleted site, nothing.
Store(doc) == site' = IF Exists THEN doc ELSE site

-----------------------------------------------------------------------------
(* Registering and removing a site; the start of a request.                *)

NewSite(b, k) == [url |-> b, status |-> "unverified", key |-> k,
                  writes |-> FALSE, verified |-> "no"]

NoSite(b)     == [url |-> b, status |-> "absent", key |-> NoKey,
                  writes |-> FALSE, verified |-> "no"]

\* Keys somebody can give: accepted, running out, revoked or another bridge's;
\* not one a rotation has just brought back.
Given == {k \in issued : ~\E r \in Slot : Does(r, "rotate", "answered") /\ req[r].arg = k}

\* POST /sites: insert, whatever the credential, then a handshake.  The site of
\* an earlier registration is another document: what was asked of it is over.
Create(s, b, k) ==
  /\ ~Exists /\ \A r \in Slot : req[r] = Idle
  /\ site' = NewSite(b, k)
  /\ works' = Good(b, k)
  /\ Reading(s, "handshake", "asked", NoKey, NewSite(b, k))
  /\ asks < MaxAsk /\ asks' = asks + 1
  /\ UNCHANGED <<keys, fails, probed, overtaken, lost>>

Delete ==
  /\ Exists
  /\ site' = NoSite(site.url)
  /\ works' = FALSE
  /\ UNCHANGED <<asks, keys, req, fails, probed, overtaken, lost>>

\* set_writes: verified within 24 h, and connected.
MayEnable == site.verified = "fresh" /\ site.status = "connected"

\* A request reads the site and, where it needs one, gets a client.
Begin(s, op, arg) ==
  /\ req[s] = Idle
  /\ op \in {"handshake", "verify", "rotate", "revoke"} => Usable
  /\ op \in {"update", "replace", "enable"} => Exists
  /\ op = "enable" => MayEnable
  /\ Reading(s, op, "asked", arg, site)
  /\ asks < MaxAsk /\ asks' = asks + 1
  /\ UNCHANGED <<site, keys, fails, hist>>

\* A failed call ends the request, in an error answer or because the handler
\* does not catch it; or the control plane stops, or its database fails.
\* Nothing more is stored.
BreakOff(s) ==
  /\ req[s] # Idle
  /\ Fail /\ Done(s)
  /\ lost' = IF req[s].op \in {"rotate", "revoke"} /\ req[s].at = "answered"
               THEN lost \cup {req[s].key} ELSE lost
  /\ UNCHANGED <<site, keys, asks, probed, overtaken, works>>

Ask(s) ==
  \/ \E op \in {"handshake", "verify", "rotate", "revoke", "enable"} : Begin(s, op, NoKey)
  \/ \E b \in Bridge : Begin(s, "update", b)
  \/ \E k \in Given : Begin(s, "replace", k)

-----------------------------------------------------------------------------
(* Handshake, update, verification, the switch.                            *)

\* What _run_handshake may store: healthy, not ready, another site's bridge, a
\* protocol it does not speak; or the credential is refused.
Outcomes(s) ==
  LET q == req[s] IN
  IF Accepts(q.url, q.key)
    THEN {[site EXCEPT !.status = "connected"], [site EXCEPT !.status = "degraded"],
          [site EXCEPT !.status = "degraded", !.writes = FALSE],
          [site EXCEPT !.status = "unreachable", !.writes = FALSE]}
    ELSE {[site EXCEPT !.status = "unreachable", !.writes = FALSE]}

Handshake(s) ==
  /\ Does(s, "handshake", "asked")
  /\ \/ (\E doc \in Outcomes(s) : Store(doc)) /\ UNCHANGED fails
     \/ Store([site EXCEPT !.status = "unreachable"]) /\ Fail
  /\ Done(s)
  /\ Note("connection", Changed(s))
  /\ UNCHANGED <<asks, keys, probed, works, lost>>

\* Bug: another bridge keeps the verification.
UpdateKeepsVerified(s) ==
  /\ Does(s, "update", "asked")
  /\ Store([site EXCEPT !.url = req[s].arg])
  /\ works' = IF req[s].arg = site.url THEN works ELSE Exists /\ Good(req[s].arg, site.key)
  /\ Done(s)
  /\ Note("trust", Changed(s))
  /\ UNCHANGED <<asks, keys, fails, probed, lost>>

\* PATCH: a different endpoint is a different trust decision.  Whether it is
\* different is judged against the site as it was read.
Update(s) ==
  LET u == req[s].arg IN
  /\ Does(s, "update", "asked")
  /\ IF u = req[s].url
       THEN Store([site EXCEPT !.url = u])
       ELSE Store([site EXCEPT !.url = u, !.writes = FALSE, !.verified = "no",
                               !.status = "unverified"])
  /\ works' = IF u = site.url THEN works ELSE Exists /\ Good(u, site.key)
  /\ Done(s)
  /\ Note("trust", Changed(s))
  /\ UNCHANGED <<asks, keys, fails, probed, lost>>

\* verify-write: a probe change is applied and rolled back on the bridge.
Verify(s) ==
  /\ Does(s, "verify", "asked")
  /\ \/ /\ Accepts(req[s].url, req[s].key)
        /\ Store([site EXCEPT !.verified = "fresh"])
        /\ probed' = IF Exists THEN req[s].url ELSE probed
        /\ Note("trust", Changed(s))
     \/ ~Accepts(req[s].url, req[s].key) /\ UNCHANGED <<site, probed, overtaken>>
  /\ Done(s)
  /\ UNCHANGED <<keys, asks, fails, works, lost>>

Enable(s) ==
  /\ Does(s, "enable", "asked")
  /\ Store([site EXCEPT !.writes = TRUE])
  /\ Done(s)
  /\ Note("trust", Changed(s) \/ ~MayEnable)
  /\ UNCHANGED <<asks, keys, fails, probed, works, lost>>

Disable ==
  /\ Exists
  /\ site' = [site EXCEPT !.writes = FALSE]
  /\ UNCHANGED <<asks, keys, req, fails, hist>>

\* The verification becomes older than 24 h.
Age ==
  /\ site.verified = "fresh"
  /\ site' = [site EXCEPT !.verified = "stale"]
  /\ UNCHANGED <<asks, keys, req, fails, hist>>

-----------------------------------------------------------------------------
(* Credentials.                                                            *)

\* Bug: the calling key ends at once.
IssueNoGrace(s, k) ==
  /\ valid' = (valid \cup {k}) \ {req[s].key}
  /\ grace' = grace \ {req[s].key}

\* KeyStore.rotate: a new key; the calling one has a grace period left.
Issue(s, k) ==
  /\ valid' = valid \cup {k}
  /\ grace' = grace \cup {req[s].key}

\* POST /auth/rotate: refused, answered, or answered in vain.
Rotate(s) ==
  /\ Does(s, "rotate", "asked")
  /\ \/ /\ ~Accepts(req[s].url, req[s].key)
        /\ Done(s) /\ UNCHANGED <<keys, fails, lost>>
     \/ /\ Accepts(req[s].url, req[s].key)
        /\ \E k \in Key \ issued :
             /\ k.at = req[s].url
             /\ \A n \in 1..(k.n - 1) : [at |-> k.at, n |-> n] \in issued
             /\ issued' = issued \cup {k}
             /\ Issue(s, k)
             /\ \/ Reading(s, "rotate", "answered", k, req[s]) /\ UNCHANGED <<fails, lost>>
                \/ Done(s) /\ Fail /\ lost' = lost \cup {req[s].key}
  /\ UNCHANGED <<asks, site, probed, overtaken, works>>

\* Handshake with what the site now holds; a revoked site has no client.
Shake(s, doc) ==
  IF Exists /\ doc.status # "revoked"
    THEN Reading(s, "handshake", "asked", NoKey, doc)
    ELSE Done(s)

\* Bug: the new key makes the site unverified, revoked or not.
StoreRotatedRevives(s) ==
  LET doc == [site EXCEPT !.key = req[s].arg, !.status = "unverified"] IN
  /\ Does(s, "rotate", "answered")
  /\ Store(doc) /\ Shake(s, doc)
  /\ works' = (Exists /\ req[s].url = site.url)
  /\ UNCHANGED <<asks, keys, fails, probed, overtaken, lost>>

StoreRotated(s) ==
  LET doc == [site EXCEPT !.key = req[s].arg] IN
  /\ Does(s, "rotate", "answered")
  /\ Store(doc) /\ Shake(s, doc)
  /\ works' = (Exists /\ req[s].url = site.url)
  /\ UNCHANGED <<asks, keys, fails, probed, overtaken, lost>>

\* A given credential is tried on the bridge first, and stored if accepted.
Try(s) ==
  /\ Does(s, "replace", "asked")
  /\ \/ /\ Accepts(req[s].url, req[s].arg)
        /\ req' = [req EXCEPT ![s].at = "answered"]
     \/ ~Accepts(req[s].url, req[s].arg) /\ Done(s)
  /\ UNCHANGED <<asks, site, keys, fails, hist>>

StoreReplaced(s) ==
  LET doc == [site EXCEPT !.key = req[s].arg, !.status = "unverified"] IN
  /\ Does(s, "replace", "answered")
  /\ Store(doc) /\ Shake(s, doc)
  /\ works' = (Exists /\ req[s].url = site.url /\ req[s].arg \in valid \ grace)
  /\ UNCHANGED <<asks, keys, fails, probed, overtaken, lost>>

\* POST /auth/revoke: done, done with the answer lost, or not done.
Revoke(s) ==
  /\ Does(s, "revoke", "asked")
  /\ \/ /\ Accepts(req[s].url, req[s].key)
        /\ valid' = valid \ {req[s].key} /\ grace' = grace \ {req[s].key}
        /\ UNCHANGED fails
     \/ ~Accepts(req[s].url, req[s].key) /\ UNCHANGED <<valid, grace, fails>>
     \/ Fail /\ UNCHANGED <<valid, grace>>
  /\ req' = [req EXCEPT ![s].at = "answered"]
  /\ UNCHANGED <<asks, site, issued, hist>>

\* Bug: writes stay on.
StoreRevokedKeeps(s) ==
  /\ Does(s, "revoke", "answered")
  /\ Store([site EXCEPT !.status = "revoked", !.verified = "no", !.key = NoKey])
  /\ works' = FALSE
  /\ Done(s)
  /\ UNCHANGED <<asks, keys, fails, probed, overtaken, lost>>

\* Whatever the bridge said, the platform's copy of the key is dropped.
StoreRevoked(s) ==
  /\ Does(s, "revoke", "answered")
  /\ Store([site EXCEPT !.status = "revoked", !.writes = FALSE, !.verified = "no",
                        !.key = NoKey])
  /\ works' = FALSE
  /\ Done(s)
  /\ UNCHANGED <<asks, keys, fails, probed, overtaken, lost>>

\* The grace period of a rotated key is over.  It is five minutes long; the
\* outcome of the rotation is stored by then.
GraceEnds(k) ==
  /\ k \in grace
  /\ ~\E s \in Slot : Does(s, "rotate", "answered") /\ req[s].key = k
  /\ valid' = valid \ {k} /\ grace' = grace \ {k}
  /\ UNCHANGED <<asks, site, issued, req, fails, hist>>

-----------------------------------------------------------------------------
Init ==
  /\ issued = {[at |-> b, n |-> 1] : b \in Bridge}
  /\ valid = issued /\ grace = {}
  /\ \E b \in Bridge : site = NoSite(b)
  /\ req = [s \in Slot |-> Idle]
  /\ asks = 0 /\ fails = 0
  /\ probed = NoKey
  /\ overtaken = {}
  /\ works = FALSE /\ lost = {}

Finish(s) ==
  \/ Handshake(s) \/ Update(s) \/ Verify(s) \/ Enable(s) \/ Rotate(s)
  \/ StoreRotated(s) \/ Try(s) \/ StoreReplaced(s) \/ Revoke(s) \/ StoreRevoked(s)
Next ==
  \/ \E s \in Slot : \/ \E b \in Bridge, k \in Given : Create(s, b, k)
                      \/ Ask(s) \/ Finish(s) \/ BreakOff(s)
  \/ Delete \/ Disable \/ Age
  \/ \E k \in Key : GraceEnds(k)

Spec == Init /\ [][Next]_vars

-----------------------------------------------------------------------------
(* What the site record promises.                                          *)

\* Writes are on only for a bridge that has passed the write probe.  The one
\* way around it is a verification, a switch or an update that was overtaken
\* by another change to the site; handshakes and credential changes are not.
WritesAreVerified ==
  site.writes /\ probed # site.url =>
    "trust" \in overtaken

\* A site without a credential is neither connected nor written to, unless a
\* handshake, or the switch, was overtaken by its revocation.
KeylessIsOff ==
  site.key = NoKey =>
    /\ site.status = "connected" => "connection" \in overtaken
    /\ site.writes => "trust" \in overtaken

\* Rotation never locks the control plane out: once the bridge at the site's
\* address accepts the stored key it goes on accepting it, also between a
\* rotation and the storing of the new key.  What ends it is another address or
\* a key stored over it that was already running out (works is FALSE then), a
\* rotation or revocation of this very key whose answer never reached the
\* database, and a revocation that is about to be stored.
KeyStaysValid ==
  works /\ ~Accepts(site.url, site.key) =>
    site.key \in lost \/ \E s \in Slot : Does(s, "revoke", "answered") /\ req[s].key = site.key

\* A revoked site comes back only by a new credential or another endpoint,
\* or by the answer of a handshake that began before.
RevokedStays ==
  [][ site.status = "revoked" /\ site'.status \notin {"revoked", "absent"} =>
        \E s \in Slot : req[s].op \in {"replace", "update"}
                        \/ (req[s].op = "handshake" /\ Changed(s)) ]_vars
=============================================================================

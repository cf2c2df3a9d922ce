--------------------------- MODULE CoverageProofs ---------------------------
(***************************************************************************)
(* Theorems about the reports and the screens.                             *)
(***************************************************************************)
EXTENDS ReportsProperties, ScreensProperties, FiniteSetTheorems, WellFoundedInduction, TLAPS

-----------------------------------------------------------------------------
(***************************************************************************)
(* Screens.  A row that lost a flag would have to come from a row that was *)
(* read or composed earlier, so what is said of the stored rows is said of *)
(* those that requests hold as well.                                       *)
(***************************************************************************)
SeenBySome == UNION {[L -> Nat] : L \in SUBSET Stories}
ScreenRow == [mockup : Mockups \cup {None}, seen : SeenBySome, uses : SUBSET Screens,
              made : [Stories -> Nat], joined : SUBSET Stories, late : SUBSET Stories]
ScreenRequest == [tool : {"none", "publish", "write", "link", "unlink"}, 
                  s : Screens \cup {None}, st : Stories \cup {None}, mockup : Mockups \cup {None},
                  links : LinkLists \cup {None}, uses : UseLists \cup {None},
                  made : [Stories -> Nat] \cup {None}, base : ScreenRow \cup {None}, version : Nat]

ScreensTypeOK ==
    /\ rev \in [Stories -> Nat]
    /\ screen \in [Screens -> ScreenRow \cup {None}]
    /\ req \in [Clients -> ScreenRequest]

(***************************************************************************)
(* The linked stories are there, and one that was not linked by hand was   *)
(* or written meanwhile was seen as it was when the mockup came in.        *)
(***************************************************************************)
SoundRow(row, revs) ==
    \A st \in Links(row) :
        /\ st \in Stories /\ revs[st] > 0
        /\ st \in row.joined \cup row.late \/ row.seen[st] = row.made[st]

SoundRequest(r, revs) ==
    /\ r.base # None => SoundRow(r.base, revs)
    /\ r.tool \in {"unlink", "write"} => r.base \in ScreenRow
    /\ r.tool = "unlink" => r.base # None
    /\ r.tool = "publish" /\ Regenerated(r) => r.made \in [Stories -> Nat]
    /\ r.tool \in {"publish", "write", "link", "unlink"} => r.s \in Screens
    /\ r.tool \in {"link", "unlink"} => r.st \in Stories
    /\ r.tool = "link" /\ r.version > 0 => revs[r.st] > 0

ScreensInv ==
    /\ ScreensTypeOK
    /\ \A s \in Screens : screen[s] # None => SoundRow(screen[s], rev)
    /\ \A c \in Clients : SoundRequest(req[c], rev)

LEMMA NoRowSound == NoRow \in ScreenRow /\ \A revs : SoundRow(NoRow, revs)
  <1>1. [st \in {} |-> 0] \in [{} -> Nat]
    OBVIOUS
  <1>2. [st \in {} |-> 0] \in SeenBySome
    BY <1>1 DEF SeenBySome
  <1> QED BY <1>2 DEF NoRow, ScreenRow, SoundRow, Links

LEMMA IdleSound == Idle \in ScreenRequest /\ \A revs : SoundRequest(Idle, revs)
  <1>1. Idle \in ScreenRequest
    BY DEF Idle, ScreenRequest
  <1>2. /\ Idle.tool = "none" /\ Idle.base = None
        /\ \A revs : SoundRequest(Idle, revs)
    BY DEF Idle, SoundRequest
  <1> QED BY <1>1, <1>2

LEMMA ScreensInitInv == ScreensInit => ScreensInv
  BY IdleSound DEF ScreensInit, ScreensInv, ScreensTypeOK

LEMMA SeenType ==
  ASSUME NEW row \in ScreenRow
  PROVE  Links(row) \subseteq Stories /\ row.seen \in [Links(row) -> Nat]
  BY DEF ScreenRow, SeenBySome, Links

LEMMA SeenMember ==
  ASSUME NEW L \in SUBSET Stories, NEW f \in [L -> Nat]
  PROVE  f \in SeenBySome
  BY DEF SeenBySome

LEMMA BaseSound ==
  ASSUME NEW r \in ScreenRequest, SoundRequest(r, rev)
  PROVE  Base(r) \in ScreenRow /\ SoundRow(Base(r), rev)
  BY NoRowSound DEF Base, ScreenRequest, SoundRequest

\* The row composed by a publish: a full snapshot when the mockup was generated,
\* else what was seen of the stories kept, and the added ones are marked.
LEMMA PublishedSound ==
  ASSUME rev \in [Stories -> Nat], NEW r \in ScreenRequest, r.tool = "publish", SoundRequest(r, rev),
         LinksWanted(r) \subseteq Known
  PROVE  Published(r) \in ScreenRow /\ SoundRow(Published(r), rev)
  <1>1. Base(r) \in ScreenRow /\ SoundRow(Base(r), rev)
    BY BaseSound
  <1>2. Links(Base(r)) \subseteq Stories /\ Base(r).seen \in [Links(Base(r)) -> Nat]
    BY <1>1, SeenType
  <1>3. LinksWanted(r) \subseteq Stories /\ \A st \in LinksWanted(r) : rev[st] > 0
    BY DEF Known
  <1>4. SeenBy(r) \in [LinksWanted(r) -> Nat]
    BY <1>2, <1>3 DEF SeenBy
  <1>5. SeenBy(r) \in SeenBySome
    BY <1>3, <1>4, SeenMember
  <1>6. r.mockup \in Mockups \cup {None} /\ Base(r).mockup \in Mockups \cup {None}
    BY <1>1 DEF ScreenRequest, ScreenRow
  <1>7. Regenerated(r) => r.made \in [Stories -> Nat]
    BY DEF SoundRequest
  <1>8. UsesKept(r) \in SUBSET Screens
    BY <1>1, ScreensAssumption DEF UsesKept, ScreenRequest, ScreenRow
  <1>9. Published(r) \in ScreenRow
    <2>1. Published(r).made \in [Stories -> Nat]
      BY <1>1, <1>7 DEF Published, ScreenRow
    <2>2. Published(r).joined \in SUBSET Stories /\ Published(r).late \in SUBSET Stories
      BY <1>1, <1>2, <1>3 DEF Published, ScreenRow, Overtaken
    <2>3. Published(r).uses \in SUBSET Screens
      BY <1>1, <1>6, <1>8, EmbedsAssumption DEF Published, Regenerated, ScreenRow
    <2>4. Published(r).mockup \in Mockups \cup {None} /\ Published(r).seen \in SeenBySome
      BY <1>5, <1>6 DEF Published
    <2>5. Published(r) = [mockup |-> Published(r).mockup, seen |-> Published(r).seen,
                          uses |-> Published(r).uses, made |-> Published(r).made,
                          joined |-> Published(r).joined, late |-> Published(r).late]
      BY DEF Published
    <2> QED BY <2>1, <2>2, <2>3, <2>4, <2>5 DEF ScreenRow
  <1>10. Published(r).seen = SeenBy(r) /\ Links(Published(r)) = LinksWanted(r)
    BY <1>4 DEF Published, Links
  <1>11. ASSUME NEW st \in LinksWanted(r)
         PROVE  st \in Published(r).joined \cup Published(r).late \/ SeenBy(r)[st] = Published(r).made[st]
    <2>1. CASE Regenerated(r)
      <3>1. SeenBy(r)[st] = rev[st] /\ Published(r).made[st] = r.made[st]
        BY <1>3, <2>1 DEF SeenBy, Published
      <3>2. st \in Published(r).late \/ r.made[st] = rev[st]
        BY <2>1 DEF Published, Overtaken
      <3> QED BY <3>1, <3>2
    <2>2. CASE ~Regenerated(r) /\ st \in Links(Base(r))
      <3>1. SeenBy(r)[st] = Base(r).seen[st] /\ Published(r).made[st] = Base(r).made[st]
        BY <1>3, <2>2 DEF SeenBy, Published
      <3>2. /\ st \in Base(r).joined => st \in Published(r).joined
            /\ st \in Base(r).late => st \in Published(r).late
        BY <2>2 DEF Published
      <3> QED BY <3>1, <3>2, <2>2, <1>1 DEF SoundRow
    <2>3. CASE ~Regenerated(r) /\ st \notin Links(Base(r))
      BY <2>3 DEF Published
    <2> QED BY <2>1, <2>2, <2>3
  <1> QED BY <1>3, <1>9, <1>10, <1>11 DEF SoundRow

LEMMA LinkedSound ==
  ASSUME NEW row \in ScreenRow, SoundRow(row, rev), NEW st \in Stories, rev[st] > 0, NEW v \in Nat
  PROVE  LET linked == [row EXCEPT !.seen = With(@, st, v), !.joined = @ \cup {st}]
         IN  linked \in ScreenRow /\ SoundRow(linked, rev)
  <1> DEFINE linked == [row EXCEPT !.seen = With(row.seen, st, v), !.joined = row.joined \cup {st}]
  <1>1. Links(row) \subseteq Stories /\ row.seen \in [Links(row) -> Nat]
    BY SeenType
  <1>2. With(row.seen, st, v) \in [Links(row) \cup {st} -> Nat]
    BY <1>1 DEF With
  <1>3. With(row.seen, st, v) \in SeenBySome
    BY <1>1, <1>2, SeenMember
  <1>4. linked \in ScreenRow
    BY <1>3 DEF ScreenRow
  <1>5. /\ linked.seen = With(row.seen, st, v) /\ linked.joined = row.joined \cup {st}
        /\ linked.made = row.made /\ linked.late = row.late
    BY DEF ScreenRow
  <1>6. Links(linked) = Links(row) \cup {st}
    BY <1>2, <1>5 DEF Links
  <1>7. \A x \in Links(row) : x # st => linked.seen[x] = row.seen[x]
    BY <1>1, <1>5 DEF With
  <1>8. SoundRow(linked, rev)
    BY <1>5, <1>6, <1>7 DEF SoundRow
  <1> QED BY <1>4, <1>8

LEMMA UnlinkedSound ==
  ASSUME NEW row \in ScreenRow, SoundRow(row, rev), NEW st \in Stories
  PROVE  LET left == [row EXCEPT !.seen = Without(@, st), !.joined = @ \ {st}, !.late = @ \ {st}]
         IN  left \in ScreenRow /\ SoundRow(left, rev)
  <1> DEFINE left == [row EXCEPT !.seen = Without(row.seen, st), !.joined = row.joined \ {st},
                                 !.late = row.late \ {st}]
  <1>1. Links(row) \subseteq Stories /\ row.seen \in [Links(row) -> Nat]
    BY SeenType
  <1>2. Without(row.seen, st) \in [Links(row) \ {st} -> Nat]
    BY <1>1 DEF Without
  <1>3. Without(row.seen, st) \in SeenBySome
    BY <1>1, <1>2, SeenMember
  <1>4. left \in ScreenRow
    BY <1>3 DEF ScreenRow
  <1>5. /\ left.seen = Without(row.seen, st) /\ left.joined = row.joined \ {st}
        /\ left.made = row.made /\ left.late = row.late \ {st}
    BY DEF ScreenRow
  <1>6. Links(left) = Links(row) \ {st}
    BY <1>2, <1>5 DEF Links
  <1>7. \A x \in Links(left) : left.seen[x] = row.seen[x]
    BY <1>1, <1>5, <1>6 DEF Without
  <1>8. SoundRow(left, rev)
    BY <1>5, <1>6, <1>7 DEF SoundRow
  <1> QED BY <1>4, <1>8

\* A client's step that writes no story: what its request becomes, and what it
\* stores, if anything, has to be sound.
LEMMA ScreensByRequest ==
  ASSUME ScreensInv, NEW c \in Clients, rev' = rev, NEW r \in ScreenRequest,
         SoundRequest(r, rev), req' = [req EXCEPT ![c] = r],
         \/ screen' = screen
         \/ \E s \in Screens, row \in ScreenRow \cup {None} :
               screen' = [screen EXCEPT ![s] = row] /\ (row # None => SoundRow(row, rev))
  PROVE  ScreensInv'
  <1>1. req' \in [Clients -> ScreenRequest] /\ \A d \in Clients : SoundRequest(req'[d], rev)
    BY DEF ScreensInv, ScreensTypeOK
  <1>2. /\ screen' \in [Screens -> ScreenRow \cup {None}]
        /\ \A s \in Screens : screen'[s] # None => SoundRow(screen'[s], rev)
    BY DEF ScreensInv, ScreensTypeOK
  <1> QED BY <1>1, <1>2 DEF ScreensInv, ScreensTypeOK

LEMMA ScreensWriteStory == \A st \in Stories : ScreensInv /\ WriteStory(st) => ScreensInv'
  <1> SUFFICES ASSUME NEW st \in Stories, ScreensInv, WriteStory(st)  PROVE ScreensInv'
    OBVIOUS
  <1>1. ScreensTypeOK'
    BY DEF WriteStory, ScreensInv, ScreensTypeOK
  <1>2. \A x \in Stories : rev[x] > 0 => rev'[x] > 0
    BY DEF WriteStory, ScreensInv, ScreensTypeOK
  <1>3. \A row : SoundRow(row, rev) => SoundRow(row, rev')
    BY <1>2 DEF SoundRow
  <1>4. \A r \in ScreenRequest : SoundRequest(r, rev) => SoundRequest(r, rev')
    BY <1>2, <1>3 DEF SoundRequest
  <1>5. screen' = screen /\ req' = req
    BY DEF WriteStory
  <1> QED BY <1>1, <1>3, <1>4, <1>5 DEF ScreensInv, ScreensTypeOK

\* What a client's request is before its next step.
LEMMA RequestSound ==
  ASSUME ScreensInv, NEW c \in Clients
  PROVE  req[c] \in ScreenRequest /\ SoundRequest(req[c], rev)
  BY DEF ScreensInv, ScreensTypeOK

LEMMA RefusedKeeps == \A c \in Clients : ScreensInv /\ Refused(c) => ScreensInv'
  BY IdleSound, ScreensByRequest DEF Refused, Ends

LEMMA WritesKeeps ==
  ASSUME ScreensInv, NEW c \in Clients, NEW s \in Screens, NEW row \in ScreenRow,
         SoundRow(row, rev), Writes(c, s, row)
  PROVE  ScreensInv'
  BY IdleSound, ScreensByRequest DEF Writes, Ends

LEMMA StartsKeeps ==
  ASSUME ScreensInv, NEW c \in Clients, NEW r \in ScreenRequest, SoundRequest(r, rev), Starts(c, r)
  PROVE  ScreensInv'
  BY ScreensByRequest DEF Starts

LEMMA ScreensPublish == \A c \in Clients : ScreensInv /\ Publish(c) => ScreensInv'
  <1> SUFFICES ASSUME NEW c \in Clients, ScreensInv, Publish(c)  PROVE ScreensInv'
    OBVIOUS
  <1>1. PICK s \in Screens, m \in {None} \cup Mockups, L \in {None} \cup LinkLists, U \in {None} \cup UseLists :
            Starts(c, [Idle EXCEPT !.tool = "publish", !.s = s, !.mockup = m, !.links = L, !.uses = U,
                                   !.made = IF m = None THEN None ELSE rev, !.base = screen[s]])
    BY DEF Publish
  <1> DEFINE r == [Idle EXCEPT !.tool = "publish", !.s = s, !.mockup = m, !.links = L, !.uses = U,
                               !.made = IF m = None THEN None ELSE rev, !.base = screen[s]]
  <1>2. screen[s] \in ScreenRow \cup {None} /\ (screen[s] # None => SoundRow(screen[s], rev))
    BY DEF ScreensInv, ScreensTypeOK
  <1>v. rev \in [Stories -> Nat]
    BY DEF ScreensInv, ScreensTypeOK
  <1>3. r \in ScreenRequest
    BY <1>v, <1>2 DEF Idle, ScreenRequest
  <1>4. /\ r.tool = "publish" /\ r.s = s /\ r.base = screen[s] /\ r.mockup = m
        /\ r.made = IF m = None THEN None ELSE rev
    BY DEF Idle
  <1>5. SoundRequest(r, rev)
    BY <1>v, <1>2, <1>4 DEF SoundRequest, Regenerated
  <1> QED BY <1>1, <1>3, <1>5, StartsKeeps

LEMMA ScreensCompose == \A c \in Clients : ScreensInv /\ Compose(c) => ScreensInv'
  <1> SUFFICES ASSUME NEW c \in Clients, ScreensInv, Compose(c)  PROVE ScreensInv'
    OBVIOUS
  <1>1. CASE Refused(c)
    BY <1>1, RefusedKeeps
  <1>2. CASE ~Refused(c)
    <2> DEFINE r == [Idle EXCEPT !.tool = "write", !.s = req[c].s, !.base = Published(req[c])]
    <2>1. /\ req[c].tool = "publish" /\ LinksWanted(req[c]) \subseteq Known
          /\ req' = [req EXCEPT ![c] = r] /\ rev' = rev /\ screen' = screen
      BY <1>2 DEF Compose
    <2>2. Published(req[c]) \in ScreenRow /\ SoundRow(Published(req[c]), rev)
      BY <2>1, RequestSound, PublishedSound DEF ScreensInv, ScreensTypeOK
    <2>3. req[c].s \in Screens
      BY <2>1, RequestSound DEF SoundRequest
    <2>4. r \in ScreenRequest
      BY <2>2, <2>3 DEF Idle, ScreenRequest
    <2>5. r.tool = "write" /\ r.s = req[c].s /\ r.base = Published(req[c])
      BY DEF Idle
    <2>6. SoundRequest(r, rev)
      BY <2>2, <2>3, <2>5 DEF SoundRequest
    <2> QED BY <2>1, <2>4, <2>6, ScreensByRequest
  <1> QED BY <1>1, <1>2

LEMMA ScreensStore == \A c \in Clients : ScreensInv /\ StoreScreen(c) => ScreensInv'
  <1> SUFFICES ASSUME NEW c \in Clients, ScreensInv, StoreScreen(c)  PROVE ScreensInv'
    OBVIOUS
  <1>1. req[c].tool = "write" /\ Writes(c, req[c].s, req[c].base)
    BY DEF StoreScreen
  <1>2. req[c].s \in Screens /\ req[c].base \in ScreenRow /\ (req[c].base # None => SoundRow(req[c].base, rev))
    BY <1>1, RequestSound DEF SoundRequest
  <1> QED BY <1>1, <1>2, IdleSound, ScreensByRequest DEF Writes, Ends

LEMMA ScreensLink == \A c \in Clients : ScreensInv /\ Link(c) => ScreensInv'
  <1> SUFFICES ASSUME NEW c \in Clients, ScreensInv, Link(c)  PROVE ScreensInv'
    OBVIOUS
  <1>1. PICK s \in Screens, st \in Stories : Starts(c, [Idle EXCEPT !.tool = "link", !.s = s, !.st = st])
    BY DEF Link
  <1> DEFINE r == [Idle EXCEPT !.tool = "link", !.s = s, !.st = st]
  <1>2. r \in ScreenRequest
    BY DEF Idle, ScreenRequest
  <1>3. r.tool = "link" /\ r.s = s /\ r.st = st /\ r.base = None /\ r.version = 0
    BY DEF Idle
  <1>4. SoundRequest(r, rev)
    BY <1>3 DEF SoundRequest
  <1> QED BY <1>1, <1>2, <1>4, StartsKeeps

LEMMA ScreensReadStory == \A c \in Clients : ScreensInv /\ ReadStory(c) => ScreensInv'
  <1> SUFFICES ASSUME NEW c \in Clients, ScreensInv, ReadStory(c)  PROVE ScreensInv'
    OBVIOUS
  <1>1. CASE Refused(c)
    BY <1>1, RefusedKeeps
  <1>2. CASE ~Refused(c)
    <2>1. /\ req[c].tool = "link" /\ req[c].st \in Known
          /\ req' = [req EXCEPT ![c].version = rev[req[c].st]] /\ rev' = rev /\ screen' = screen
      BY <1>2 DEF ReadStory
    <2>2. PICK r : r = [req[c] EXCEPT !.version = rev[req[c].st]]
      OBVIOUS
    <2>3. rev[req[c].st] \in Nat /\ rev[req[c].st] > 0
      BY <2>1 DEF ScreensInv, ScreensTypeOK, Known
    <2>4. r \in ScreenRequest
      BY <2>2, <2>3, RequestSound DEF ScreenRequest
    <2>5. /\ r.tool = req[c].tool /\ r.s = req[c].s /\ r.st = req[c].st /\ r.base = req[c].base
      BY <2>2, RequestSound DEF ScreenRequest
    <2>6. SoundRequest(r, rev)
      BY <2>1, <2>3, <2>5, RequestSound DEF SoundRequest
    <2>7. req' = [req EXCEPT ![c] = r]
      BY <2>1, <2>2
    <2> QED BY <2>1, <2>4, <2>6, <2>7, ScreensByRequest
  <1> QED BY <1>1, <1>2

LEMMA ScreensReadScreen == \A c \in Clients : ScreensInv /\ ReadScreen(c) => ScreensInv'
  <1> SUFFICES ASSUME NEW c \in Clients, ScreensInv, ReadScreen(c)  PROVE ScreensInv'
    OBVIOUS
  <1>1. CASE Refused(c)
    BY <1>1, RefusedKeeps
  <1>2. CASE ~Refused(c)
    <2>1. /\ req[c].tool = "link" /\ req[c].s \in Stored
          /\ req' = [req EXCEPT ![c].base = screen[req[c].s]] /\ rev' = rev /\ screen' = screen
      BY <1>2 DEF ReadScreen
    <2>2. PICK r : r = [req[c] EXCEPT !.base = screen[req[c].s]]
      OBVIOUS
    <2>3. screen[req[c].s] \in ScreenRow \cup {None} /\ SoundRow(screen[req[c].s], rev)
      BY <2>1 DEF ScreensInv, ScreensTypeOK, Stored
    <2>4. r \in ScreenRequest
      BY <2>2, <2>3, RequestSound DEF ScreenRequest
    <2>5. /\ r.tool = req[c].tool /\ r.s = req[c].s /\ r.st = req[c].st
          /\ r.version = req[c].version /\ r.base = screen[req[c].s]
      BY <2>2, RequestSound DEF ScreenRequest
    <2>6. SoundRequest(r, rev)
      BY <2>1, <2>3, <2>5, RequestSound DEF SoundRequest
    <2>7. req' = [req EXCEPT ![c] = r]
      BY <2>1, <2>2
    <2> QED BY <2>1, <2>4, <2>6, <2>7, ScreensByRequest
  <1> QED BY <1>1, <1>2

LEMMA ScreensStoreLink == \A c \in Clients : ScreensInv /\ StoreLink(c) => ScreensInv'
  <1> SUFFICES ASSUME NEW c \in Clients, ScreensInv, StoreLink(c)  PROVE ScreensInv'
    OBVIOUS
  <1>1. PICK row : row = [req[c].base EXCEPT !.seen = With(@, req[c].st, req[c].version),
                                            !.joined = @ \cup {req[c].st}]
    OBVIOUS
  <1>2. req[c].tool = "link" /\ req[c].version > 0 /\ req[c].base # None /\ Writes(c, req[c].s, row)
    BY <1>1 DEF StoreLink
  <1>3. req[c].base \in ScreenRow /\ SoundRow(req[c].base, rev) /\ req[c].version \in Nat
    BY <1>2, RequestSound DEF SoundRequest, ScreenRequest
  <1>4. req[c].s \in Screens /\ req[c].st \in Stories /\ rev[req[c].st] > 0
    BY <1>2, RequestSound DEF SoundRequest
  <1>5. row \in ScreenRow /\ SoundRow(row, rev)
    BY <1>1, <1>3, <1>4, LinkedSound
  <1> QED BY <1>2, <1>4, <1>5, WritesKeeps

LEMMA ScreensUnlink == \A c \in Clients : ScreensInv /\ Unlink(c) => ScreensInv'
  <1> SUFFICES ASSUME NEW c \in Clients, ScreensInv, Unlink(c)  PROVE ScreensInv'
    OBVIOUS
  <1>1. PICK s \in Stored, st \in Stories :
            Starts(c, [Idle EXCEPT !.tool = "unlink", !.s = s, !.st = st, !.base = screen[s]])
    BY DEF Unlink
  <1> DEFINE r == [Idle EXCEPT !.tool = "unlink", !.s = s, !.st = st, !.base = screen[s]]
  <1>2. s \in Screens /\ screen[s] \in ScreenRow /\ screen[s] # None /\ SoundRow(screen[s], rev)
    BY DEF ScreensInv, ScreensTypeOK, Stored
  <1>3. r \in ScreenRequest
    BY <1>2 DEF Idle, ScreenRequest
  <1>4. r.tool = "unlink" /\ r.s = s /\ r.st = st /\ r.base = screen[s]
    BY DEF Idle
  <1>5. SoundRequest(r, rev)
    BY <1>2, <1>4 DEF SoundRequest
  <1> QED BY <1>1, <1>3, <1>5, StartsKeeps

LEMMA ScreensStoreUnlink == \A c \in Clients : ScreensInv /\ StoreUnlink(c) => ScreensInv'
  <1> SUFFICES ASSUME NEW c \in Clients, ScreensInv, StoreUnlink(c)  PROVE ScreensInv'
    OBVIOUS
  <1>1. CASE Refused(c)
    BY <1>1, RefusedKeeps
  <1>2. CASE ~Refused(c)
    <2>1. PICK row : row = [req[c].base EXCEPT !.seen = Without(@, req[c].st),
                                              !.joined = @ \ {req[c].st}, !.late = @ \ {req[c].st}]
      OBVIOUS
    <2>2. req[c].tool = "unlink" /\ Writes(c, req[c].s, row)
      BY <1>2, <2>1 DEF StoreUnlink
    <2>3. req[c].base \in ScreenRow /\ SoundRow(req[c].base, rev)
      BY <2>2, RequestSound DEF SoundRequest
    <2>4. req[c].s \in Screens /\ req[c].st \in Stories
      BY <2>2, RequestSound DEF SoundRequest
    <2>5. row \in ScreenRow /\ SoundRow(row, rev)
      BY <2>1, <2>3, <2>4, UnlinkedSound
    <2> QED BY <2>2, <2>4, <2>5, WritesKeeps
  <1> QED BY <1>1, <1>2

LEMMA ScreensDelete == \A c \in Clients : ScreensInv /\ DeleteScreen(c) => ScreensInv'
  <1> SUFFICES ASSUME NEW c \in Clients, ScreensInv, DeleteScreen(c)  PROVE ScreensInv'
    OBVIOUS
  <1>1. PICK s \in Stored : screen' = [screen EXCEPT ![s] = None]
    BY DEF DeleteScreen
  <1>2. screen' \in [Screens -> ScreenRow \cup {None}]
        /\ \A x \in Screens : screen'[x] # None => screen[x] # None /\ screen'[x] = screen[x]
    BY <1>1 DEF ScreensInv, ScreensTypeOK, Stored
  <1> QED BY <1>2 DEF DeleteScreen, ScreensInv, ScreensTypeOK

LEMMA ScreensStepInv == ScreensInv /\ [ScreensNext]_screenVars => ScreensInv'
  <1> SUFFICES ASSUME ScreensInv, [ScreensNext]_screenVars  PROVE ScreensInv'
    OBVIOUS
  <1>1. CASE UNCHANGED screenVars
    BY <1>1 DEF screenVars, ScreensInv, ScreensTypeOK
  <1>2. CASE \E st \in Stories : WriteStory(st)
    BY <1>2, ScreensWriteStory
  <1>3. ASSUME NEW c \in Clients, Publish(c) \/ Compose(c) \/ StoreScreen(c)  PROVE ScreensInv'
    BY <1>3, ScreensPublish, ScreensCompose, ScreensStore
  <1>4. ASSUME NEW c \in Clients, Link(c) \/ ReadStory(c) \/ ReadScreen(c) \/ StoreLink(c)
        PROVE  ScreensInv'
    BY <1>4, ScreensLink, ScreensReadStory, ScreensReadScreen, ScreensStoreLink
  <1>5. ASSUME NEW c \in Clients, Unlink(c) \/ StoreUnlink(c) \/ DeleteScreen(c)  PROVE ScreensInv'
    BY <1>5, ScreensUnlink, ScreensStoreUnlink, ScreensDelete
  <1> QED BY <1>1, <1>2, <1>3, <1>4, <1>5 DEF ScreensNext

\* The stories, the screens and the requests in flight stay well formed.
THEOREM ScreensTypesCorrect == ScreensSpec => []ScreensTypeOK
  <1>1. ScreensInv => ScreensTypeOK
    BY DEF ScreensInv
  <1> QED BY <1>1, ScreensInitInv, ScreensStepInv, PTL DEF ScreensSpec

\* A story that is seen otherwise than it is shows, whichever list is asked.
LEMMA DriftIsShown ==
  ASSUME NEW s \in Stored, NEW st \in Links(screen[s]), st \in Known, screen[s].seen[st] # rev[st]
  PROVE  Flagged(s, st)
  <1>1. s \in Screens /\ st \in Drifted(s)
    BY DEF Stored, Drifted
  <1>2. st \in DriftedAmong(s, Known) /\ st \in DriftedAmong(s, {st})
    BY DEF DriftedAmong
  <1>3. IsStale(s, Known) = TRUE /\ IsStale(s, {st}) = TRUE
    BY <1>2 DEF IsStale
  <1>4. /\ s \in Matching(PhaseOf[s], Absent, st) /\ s \in Matching(PhaseOf[s], Absent, Absent)
    BY DEF Matching
  <1>5. s \in list_screens(PhaseOf[s], Absent, st, TRUE) \ list_screens(Absent, Shows[s], st, FALSE)
    BY <1>3, <1>4, AbsentAssumption DEF list_screens
  <1>6. get_screen(s).stale /\ get_screen(s).stories[st].drifted
    BY <1>3 DEF get_screen
  <1>7. get_screens_for_story(st)[s].stale
    BY <1>3 DEF get_screens_for_story
  <1>8. get_stories_for_screen(s)[st].drifted
    BY DEF get_stories_for_screen
  <1>9. st \in get_stale_screens(PhaseOf[s])[s]
    BY <1>2, <1>3, <1>4 DEF get_stale_screens, staleScreens
  <1>10. PhaseOf[s] \in Phases => st \in reportedStale(PhaseOf[s], "strict")[s]
    BY <1>2, <1>3, PhaseOrderAssumption DEF reportedStale, staleScreens, InScope
  <1>11. api_screens(PhaseOf[s], Absent, st)[s].stale
    BY <1>3, <1>4 DEF api_screens
  <1>12. api_screen(s).stale /\ st \in api_screen(s).drifted
    BY <1>3 DEF api_screen
  <1> QED BY <1>1, <1>5, <1>6, <1>7, <1>8, <1>9, <1>10, <1>11, <1>12 DEF Flagged

(***************************************************************************)
(* A story written after a mockup came in shows as drift, unless it was    *)
(* linked later by hand or written before the snapshot of the same call,   *)
(* for any requests that overlap and in every list                         *)
(* (create_or_update_screen, link_story_screen, unlink_story_screen).      *)
(***************************************************************************)
THEOREM DriftAlwaysShows == ScreensSpec => []DriftShows
  <1>1. ScreensInv => DriftShows
    <2> SUFFICES ASSUME ScreensInv, NEW s \in Stored, NEW st \in Links(screen[s]),
                        screen[s].made[st] # rev[st], st \notin screen[s].joined \cup screen[s].late
                 PROVE  Flagged(s, st)
      BY DEF DriftShows
    <2>1. s \in Screens /\ SoundRow(screen[s], rev)
      BY DEF ScreensInv, Stored
    <2>2. st \in Known /\ screen[s].seen[st] # rev[st]
      BY <2>1 DEF SoundRow, Known
    <2> QED BY <2>2, DriftIsShown
  <1> QED BY <1>1, ScreensInitInv, ScreensStepInv, PTL DEF ScreensSpec

(***************************************************************************)
(* The consistency check.  What is in the scope of a phase is in the scope *)
(* of all of them, and the errors of an item do not depend on the phase.   *)
(***************************************************************************)
LEMMA NeitherHas == \A A, B : A \cup B = {} => A = {} /\ B = {}
  OBVIOUS

LEMMA ErrorsOfAll ==
  ASSUME NEW phase, NEW mode, NEW other, Errors(None, other) = {}
  PROVE  Errors(phase, mode) = {}
  <1> DEFINE ofStories == UNION {StoryErrors(st, None, other) :
                                   st \in {x \in Known : StoryInScope(StoryPhases[x], None, other)}}
             ofScreens == UNION {ScreenErrors(s) : s \in {x \in Stored : InScope(PhaseOf[x], None, other)}}
  <1>1. ofStories \cup ofScreens = {}
    BY DEF Errors
  <1>2. ofStories = {} /\ ofScreens = {}
    <2> HIDE DEF ofStories, ofScreens
    <2> QED BY <1>1, NeitherHas
  <1>3. \A st \in Known : StoryErrors(st, None, other) = {}
    <2>1. \A st \in Known : st \in {x \in Known : StoryInScope(StoryPhases[x], None, other)}
      BY DEF StoryInScope
    <2> QED BY <1>2, <2>1
  <1>4. \A st \in Known : StoryErrors(st, phase, mode) = {}
    BY <1>3 DEF StoryErrors, LinkedTo
  <1>5. \A s \in Stored : ScreenErrors(s) = {}
    <2>1. \A s \in Stored : s \in {x \in Stored : InScope(PhaseOf[x], None, other)}
      BY DEF InScope
    <2> QED BY <1>2, <2>1
  <1> QED BY <1>4, <1>5 DEF Errors

LEMMA NoStoryErrors ==
  ASSUME NEW st, NEW phase, NEW mode, StoryErrors(st, phase, mode) = {}
  PROVE  missingPlatforms(st) = {}
  <1>1. LinkedTo(st, phase, mode) # {}
    BY DEF StoryErrors
  <1>2. Wanted[st] \subseteq {Shows[s] : s \in LinkedTo(st, phase, mode)}
    BY <1>1 DEF StoryErrors
  <1>3. DOMAIN get_screens_for_story(st) = LinkedTo(st, phase, mode)
    BY DEF get_screens_for_story, LinkedTo
  <1> QED BY <1>2, <1>3 DEF missingPlatforms

(***************************************************************************)
(* Whatever the screens and stories are: no errors over all phases is no   *)
(* errors in any, by tool or route, and where a phase has none, no story   *)
(* of it lacks a screen on a platform of its own (checkUiCoverage).        *)
(***************************************************************************)
THEOREM OkAlwaysEverywhere == ScreensSpec => []OkEverywhere
  <1>1. OkEverywhere
    <2>1. ASSUME check_ui_coverage(None, "cumulative", None), NEW p \in Phases
          PROVE  /\ \A m \in Modes : check_ui_coverage(p, m, None)
                 /\ api_ui_coverage(Absent, Absent, p)
      <3>1. Errors(None, "cumulative") = {}
        BY <2>1 DEF check_ui_coverage, Ok
      <3>2. \A phase, mode : Errors(phase, mode) = {}
        BY <3>1, ErrorsOfAll
      <3> QED BY <3>2 DEF check_ui_coverage, api_ui_coverage, Ok
    <2>2. ASSUME NEW p \in Phases, check_ui_coverage(Absent, "strict", p),
                 NEW st \in Known, StoryInScope(StoryPhases[st], p, "strict")
          PROVE  missingPlatforms(st) = {}
      <3>1. Errors(p, "strict") = {}
        BY <2>2 DEF check_ui_coverage, Ok
      <3>2. StoryErrors(st, p, "strict") = {}
        BY <2>2, <3>1 DEF Errors
      <3> QED BY <3>2, NoStoryErrors
    <2> QED BY <2>1, <2>2 DEF OkEverywhere
  <1> QED BY <1>1, PTL DEF ScreensSpec

-----------------------------------------------------------------------------
(***************************************************************************)
(* Reports.  A story that a requirement in scope traces is in scope.       *)
(***************************************************************************)
LEMMA TracedInScope ==
  ASSUME NEW phase, NEW mode, NEW r \in ReqsIn(phase, mode), NEW s \in Stories, r \in traces[s]
  PROVE  s \in StoriesOf(r, phase, mode)
  <1>1. phaseOf[r] \in PhasesOf(s) /\ InScope(phaseOf[r], phase, mode)
    BY DEF PhasesOf, ReqsIn
  <1>2. StoryInScope(PhasesOf(s), phase, mode)
    BY <1>1 DEF StoryInScope
  <1> QED BY <1>2 DEF StoriesOf, StoriesIn

LEMMA GapOrCovered ==
  ASSUME NEW phase, NEW mode, NEW s \in StoriesIn(phase, mode)
  PROVE  Covered(s, LatestRuns(phase, mode))
         <=> s \notin Gaps(phase, mode).noScenario \cup Gaps(phase, mode).notCovered
  <1>1. /\ Gaps(phase, mode).noScenario = {x \in StoriesIn(phase, mode) : ~Tested(x)}
        /\ Gaps(phase, mode).notCovered
             = {x \in StoriesIn(phase, mode) : Tested(x) /\ ~Covered(x, LatestRuns(phase, mode))}
    BY DEF Gaps
  <1>2. Covered(s, LatestRuns(phase, mode)) => Tested(s)
    BY DEF Covered
  <1> QED BY <1>1, <1>2

(***************************************************************************)
(* For any tables, an active requirement in scope is verified exactly when *)
(* neither it nor a story of it is among the gaps (buildReport, findGaps). *)
(***************************************************************************)
THEOREM GapsAlwaysExplain == Spec => []GapsExplain
  <1>1. ASSUME NEW phase, NEW mode, NEW r \in ReqsIn(phase, mode) \cap active
        PROVE  r \in VerifiedReqs(phase, mode)
               <=> /\ r \notin Gaps(phase, mode).noStory
                   /\ \A s \in Stories : r \in traces[s]
                        => s \notin Gaps(phase, mode).noScenario \cup Gaps(phase, mode).notCovered
    <2>1. \A s : s \in StoriesOf(r, phase, mode) <=> s \in Stories /\ r \in traces[s]
      BY TracedInScope DEF StoriesOf, StoriesIn
    <2>2. \A s \in StoriesOf(r, phase, mode) :
             Covered(s, LatestRuns(phase, mode))
             <=> s \notin Gaps(phase, mode).noScenario \cup Gaps(phase, mode).notCovered
      BY GapOrCovered DEF StoriesOf
    <2>3. r \notin Gaps(phase, mode).noStory <=> HasStory(r, phase, mode)
      BY DEF Gaps
    <2>4. r \in VerifiedReqs(phase, mode)
          <=> /\ HasStory(r, phase, mode)
              /\ \A s \in StoriesOf(r, phase, mode) : Covered(s, LatestRuns(phase, mode))
      BY DEF VerifiedReqs
    <2> QED BY <2>1, <2>2, <2>3, <2>4
  <1>2. GapsExplain
    BY <1>1 DEF GapsExplain
  <1> QED BY <1>2, PTL DEF Spec

-----------------------------------------------------------------------------
(***************************************************************************)
(* The reports' tables.  An execution may name a phase that is not there.  *)
(***************************************************************************)
TagSet == SUBSET (Stories \cup {Lost})
Execution == [phase : Phases \cup {Lost}, sc : Scenarios, status : Statuses, at : Times]
ImportState == [todo : SUBSET OnDisk, writing : OnDisk \cup {None},
                overwrite : BOOLEAN, force : BOOLEAN, alone : BOOLEAN]

ReportsTypeOK ==
    /\ phaseOf \in [Reqs -> Phases \cup {None, Lost}]
    /\ active \subseteq Reqs
    /\ traces \in [Stories -> SUBSET Reqs]
    /\ tags \in [Scenarios -> {None} \cup TagSet]
    /\ log \in Seq(Execution)
    /\ refs \in [Mrs \cup Branches -> {None} \cup [state : RefStates, stories : SUBSET Stories]]
    /\ importing \in {None} \cup ImportState
    /\ imports \in Nat

(***************************************************************************)
(* An import that had the table to itself: only what it took over is       *)
(* stored, as the files have it, and when nothing is skipped it is all of  *)
(* what the import is past.                                                *)
(***************************************************************************)
Past == OnDisk \ (importing.todo \cup {importing.writing})
TakesAll == importing.force \/ OnDisk \cap Malformed = {}
AloneInv ==
    importing # None /\ importing.alone =>
        /\ \A sc \in Scenarios : tags[sc] # None => sc \in Past
        /\ TakesAll => \A sc \in Past : tags[sc] = DiskTags[sc]

ImportStateInv == importing # None => importing.writing \notin importing.todo

ReportsInv == ReportsTypeOK /\ ImportStateInv /\ AloneInv

LEMMA ReportsInitInv == Init => ReportsInv
  <1> SUFFICES ASSUME Init  PROVE ReportsInv
    OBVIOUS
  <1>1. phaseOf \in [Reqs -> Phases \cup {None, Lost}]
    BY ChoicesAssumption DEF Init
  <1>2. active \subseteq Reqs /\ log \in Seq(Execution) /\ imports \in Nat /\ importing = None
    BY DEF Init
  <1>3. traces \in [Stories -> SUBSET Reqs]
    BY ChoicesAssumption DEF Init
  <1>4. tags \in [Scenarios -> {None} \cup TagSet]
    BY ChoicesAssumption DEF Init, TagSet
  <1>5. refs \in [Mrs \cup Branches -> {None} \cup [state : RefStates, stories : SUBSET Stories]]
    BY DEF Init
  <1>6. ImportStateInv /\ AloneInv
    BY <1>2 DEF ImportStateInv, AloneInv
  <1> QED BY <1>1, <1>2, <1>3, <1>4, <1>5, <1>6 DEF ReportsInv, ReportsTypeOK

LEMMA OrderOfSet ==
  ASSUME NEW S, IsFiniteSet(S)
  PROVE  Cardinality(S) \in Nat /\ SetToSeq(S) \in [1 .. Cardinality(S) -> S]
  <1>1. Cardinality(S) \in Nat /\ ExistsBijection(1 .. Cardinality(S), S)
    BY FS_CardinalityType
  <1>2. \E f \in [1 .. Cardinality(S) -> S] : IsInjective(f)
    BY <1>1 DEF ExistsBijection, Bijection, Injection
  <1> QED BY <1>1, <1>2 DEF SetToSeq

\* What is appended to the log is a sequence of executions, all of one phase.
Appends(runs, p) ==
    /\ runs \in Seq(Execution)
    /\ \A i \in 1 .. Len(runs) : runs[i].phase = p
    /\ Logged(runs)

LEMMA OneRun ==
  ASSUME NEW run \in Execution, Logged(<<run>>)
  PROVE  Appends(<<run>>, run.phase)
  <1>1. <<run>> \in Seq(Execution) /\ Len(<<run>>) = 1 /\ <<run>>[1] = run
    OBVIOUS
  <1>2. \A i \in 1 .. Len(<<run>>) : i = 1
    BY <1>1
  <1> QED BY <1>1, <1>2 DEF Appends

LEMMA Appended ==
  ASSUME Record \/ Execute \/ ImportReport
  PROVE  \E runs, p : Appends(runs, p)
  <1>1. CASE Record
    <2>1. PICK run \in Runs : Logged(<<run>>)
      BY <1>1 DEF Record
    <2>2. run \in Execution
      BY DEF Runs, Execution
    <2> QED BY <2>1, <2>2, OneRun
  <1>2. CASE Execute
    <2>1. PICK p \in Phases \cup {Lost}, sc \in OnDisk, status \in Statuses, at \in Times :
              Logged(<<[phase |-> p, sc |-> sc, status |-> status, at |-> at]>>)
      BY <1>2 DEF Execute
    <2> DEFINE run == [phase |-> p, sc |-> sc, status |-> status, at |-> at]
    <2>2. run \in Execution
      BY DEF OnDisk, Execution
    <2> HIDE DEF run
    <2>3. Logged(<<run>>)
      BY <2>1 DEF run
    <2> QED BY <2>2, <2>3, OneRun
  <1>3. CASE ImportReport
    <2>1. PICK p \in Phases, at \in Times, some \in (SUBSET Scenarios) \ {{}} :
            \E status \in [some -> Statuses] :
              Logged([i \in 1 .. Cardinality(some) |->
                         [phase |-> p, sc |-> SetToSeq(some)[i],
                          status |-> status[SetToSeq(some)[i]], at |-> at]])
      BY <1>3 DEF ImportReport
    <2>2. PICK status \in [some -> Statuses] :
              Logged([i \in 1 .. Cardinality(some) |->
                         [phase |-> p, sc |-> SetToSeq(some)[i],
                          status |-> status[SetToSeq(some)[i]], at |-> at]])
      BY <2>1
    <2> DEFINE runs == [i \in 1 .. Cardinality(some) |->
                         [phase |-> p, sc |-> SetToSeq(some)[i],
                          status |-> status[SetToSeq(some)[i]], at |-> at]]
    <2>3. IsFiniteSet(some)
      BY FiniteAssumption, FS_Subset
    <2>4. Cardinality(some) \in Nat /\ SetToSeq(some) \in [1 .. Cardinality(some) -> some]
      BY <2>3, OrderOfSet
    <2>5. \A i \in 1 .. Cardinality(some) : runs[i] \in Execution /\ runs[i].phase = p
      BY <2>4 DEF Execution
    <2>6. runs \in Seq(Execution) /\ Len(runs) = Cardinality(some)
      BY <2>4, <2>5
    <2> HIDE DEF runs
    <2>7. Logged(runs)
      BY <2>2 DEF runs
    <2> QED BY <2>5, <2>6, <2>7 DEF Appends
  <1> QED BY <1>1, <1>2, <1>3

LEMMA LoggedKeeps == \A runs, p : ReportsInv /\ Appends(runs, p) => ReportsInv'
  <1> SUFFICES ASSUME NEW runs, NEW p, ReportsInv, Appends(runs, p)  PROVE ReportsInv'
    OBVIOUS
  <1>1. log' = log \o runs /\ UNCHANGED <<phaseOf, active, traces, tags, refs, importing, imports>>
    BY DEF Appends, Logged, spec
  <1>2. log' \in Seq(Execution)
    BY <1>1 DEF Appends, ReportsInv, ReportsTypeOK
  <1>3. ReportsTypeOK'
    BY <1>1, <1>2 DEF ReportsInv, ReportsTypeOK
  <1>4. ImportStateInv' /\ AloneInv'
    BY <1>1 DEF ReportsInv, ImportStateInv, AloneInv, Past, TakesAll
  <1> QED BY <1>3, <1>4 DEF ReportsInv

LEMMA EditedKeeps ==
  ASSUME ReportsInv, NEW sc \in Scenarios, NEW links \in {None} \cup TagSet, Edited(sc, links)
  PROVE  ReportsInv'
  <1>1. /\ tags' = [tags EXCEPT ![sc] = links] /\ Intruded
        /\ UNCHANGED <<phaseOf, active, traces, log, refs, imports>>
    BY DEF Edited, Store, spec
  <1>2. tags' \in [Scenarios -> {None} \cup TagSet]
    BY <1>1 DEF ReportsInv, ReportsTypeOK
  <1>3. importing' \in {None} \cup ImportState /\ (importing' # None => ~importing'.alone)
        /\ (importing' # None => importing'.writing \notin importing'.todo)
    BY <1>1 DEF Intruded, ReportsInv, ReportsTypeOK, ImportState, ImportStateInv
  <1>4. ReportsTypeOK'
    BY <1>1, <1>2, <1>3 DEF ReportsInv, ReportsTypeOK
  <1> QED BY <1>3, <1>4 DEF ReportsInv, ImportStateInv, AloneInv

LEMMA ScenarioEdits ==
  ReportsInv /\ (CreateScenario \/ UpdateScenario \/ DeleteScenario) => ReportsInv'
  <1> SUFFICES ASSUME ReportsInv, CreateScenario \/ UpdateScenario \/ DeleteScenario
               PROVE  ReportsInv'
    OBVIOUS
  <1>1. \E sc \in Scenarios : \E links \in {None} \cup TagSet : Edited(sc, links)
    BY ChoicesAssumption
    DEF CreateScenario, UpdateScenario, DeleteScenario, StoredScenarios, TagSet
  <1> QED BY <1>1, EditedKeeps

LEMMA ImportBegins == ReportsInv /\ BeginImport => ReportsInv'
  <1> SUFFICES ASSUME ReportsInv, BeginImport  PROVE ReportsInv'
    OBVIOUS
  <1>1. PICK overwrite \in BOOLEAN, force \in BOOLEAN :
            importing' = [todo |-> OnDisk, writing |-> None, overwrite |-> overwrite,
                          force |-> force, alone |-> StoredScenarios = {}]
    BY DEF BeginImport
  <1>2. UNCHANGED <<phaseOf, active, traces, tags, log, refs>> /\ imports' = imports + 1
    BY DEF BeginImport, spec
  <1>3. (StoredScenarios = {}) \in BOOLEAN
    OBVIOUS
  <1>4. importing' \in ImportState
    BY <1>1, <1>3 DEF ImportState
  <1>5. ReportsTypeOK'
    BY <1>2, <1>4 DEF ReportsInv, ReportsTypeOK
  <1>6. /\ importing'.todo = OnDisk /\ importing'.writing = None
        /\ (importing'.alone <=> StoredScenarios = {})
    BY <1>1
  <1>7. ImportStateInv'
    BY <1>6, ScenariosAssumption DEF ImportStateInv, OnDisk
  <1>8. AloneInv'
    <2>1. importing'.alone => \A sc \in Scenarios : tags'[sc] = None
      BY <1>2, <1>6 DEF StoredScenarios
    <2>2. Past' = {}
      BY <1>6 DEF Past
    <2> QED BY <2>1, <2>2 DEF AloneInv
  <1> QED BY <1>5, <1>7, <1>8 DEF ReportsInv

\* One that nobody stored is passed over only if it is malformed and not forced.
LEMMA ImportConsiders == ReportsInv /\ ConsiderNext => ReportsInv'
  <1> SUFFICES ASSUME ReportsInv, ConsiderNext  PROVE ReportsInv'
    OBVIOUS
  <1>1. PICK sc \in importing.todo :
            importing' = [importing EXCEPT !.todo = importing.todo \ {sc},
                                           !.writing = IF Takes(sc) THEN sc ELSE None]
    BY DEF ConsiderNext
  <1>2. /\ UNCHANGED <<phaseOf, active, traces, tags, log, refs, imports>>
        /\ importing \in ImportState /\ importing.writing = None /\ importing # None
    BY DEF ConsiderNext, spec, ReportsInv, ReportsTypeOK
  <1>3. sc \in OnDisk /\ importing.todo \subseteq OnDisk
    BY <1>2 DEF ImportState
  <1>4. /\ importing' \in ImportState
        /\ importing'.todo = importing.todo \ {sc}
        /\ importing'.writing = IF Takes(sc) THEN sc ELSE None
        /\ importing'.alone = importing.alone /\ importing'.force = importing.force
    BY <1>1, <1>2, <1>3 DEF ImportState
  <1>5. ReportsTypeOK'
    BY <1>2, <1>4 DEF ReportsInv, ReportsTypeOK
  <1>6. ImportStateInv'
    BY <1>3, <1>4, ScenariosAssumption DEF ImportStateInv, OnDisk
  <1>7. AloneInv'
    <2> SUFFICES ASSUME importing.alone
                 PROVE  /\ \A x \in Scenarios : tags[x] # None => x \in Past'
                        /\ TakesAll => \A x \in Past' : tags[x] = DiskTags[x]
      BY <1>2, <1>4 DEF AloneInv, TakesAll
    <2>1. /\ \A x \in Scenarios : tags[x] # None => x \in Past
          /\ TakesAll => \A x \in Past : tags[x] = DiskTags[x]
      BY <1>2 DEF ReportsInv, AloneInv
    <2>2. Past = OnDisk \ importing.todo
      BY <1>2, ScenariosAssumption DEF Past, OnDisk
    <2>3. sc \in Scenarios /\ sc \notin StoredScenarios
      BY <1>1, <1>3, <2>1, <2>2 DEF StoredScenarios, OnDisk
    <2>4. CASE Takes(sc)
      <3>1. Past' = Past
        BY <1>3, <1>4, <2>2, <2>4 DEF Past
      <3> QED BY <2>1, <3>1
    <2>5. CASE ~Takes(sc)
      <3>1. ~TakesAll
        BY <2>3, <2>5, <1>3 DEF Takes, TakesAll
      <3>2. Past \subseteq Past'
        BY <1>4, <2>2, <2>5, ScenariosAssumption DEF Past, OnDisk
      <3> QED BY <2>1, <3>1, <3>2
    <2> QED BY <2>4, <2>5
  <1> QED BY <1>5, <1>6, <1>7 DEF ReportsInv

LEMMA ImportTakesOver == ReportsInv /\ TakeOver => ReportsInv'
  <1> SUFFICES ASSUME ReportsInv, TakeOver  PROVE ReportsInv'
    OBVIOUS
  <1> DEFINE sc == importing.writing
  <1>1. /\ UNCHANGED <<phaseOf, active, traces, log, refs, imports>>
        /\ importing \in ImportState /\ importing.writing # None
        /\ importing' = [importing EXCEPT !.writing = None]
        /\ tags' = [tags EXCEPT ![sc] = DiskTags[sc]]
    BY DEF TakeOver, Store, spec, ReportsInv, ReportsTypeOK
  <1>2. sc \in OnDisk /\ sc \in Scenarios /\ sc \notin importing.todo /\ importing.todo \subseteq OnDisk
        /\ importing # None
    BY <1>1 DEF ImportState, OnDisk, ReportsInv, ImportStateInv, TakeOver
  <1>3. DiskTags[sc] \in TagSet /\ tags \in [Scenarios -> {None} \cup TagSet]
    BY <1>2, ChoicesAssumption DEF OnDisk, TagSet, ReportsInv, ReportsTypeOK
  <1>4. /\ importing' \in ImportState
        /\ importing'.todo = importing.todo /\ importing'.writing = None
        /\ importing'.alone = importing.alone /\ importing'.force = importing.force
    BY <1>1 DEF ImportState
  <1>5. tags' \in [Scenarios -> {None} \cup TagSet] /\ tags'[sc] = DiskTags[sc]
        /\ \A x \in Scenarios : x # sc => tags'[x] = tags[x]
    BY <1>1, <1>2, <1>3
  <1>6. ReportsTypeOK'
    BY <1>1, <1>4, <1>5 DEF ReportsInv, ReportsTypeOK
  <1>7. ImportStateInv'
    BY <1>2, <1>4, ScenariosAssumption DEF ImportStateInv, OnDisk
  <1>8. Past' = Past \cup {sc} /\ Past \subseteq Scenarios
    BY <1>2, <1>4, ScenariosAssumption DEF Past, OnDisk
  <1>9. AloneInv'
    <2> SUFFICES ASSUME importing.alone
                 PROVE  /\ \A x \in Scenarios : tags'[x] # None => x \in Past'
                        /\ TakesAll => \A x \in Past' : tags'[x] = DiskTags[x]
      BY <1>4 DEF AloneInv, TakesAll
    <2>1. /\ \A x \in Scenarios : tags[x] # None => x \in Past
          /\ TakesAll => \A x \in Past : tags[x] = DiskTags[x]
      BY <1>2 DEF ReportsInv, AloneInv
    <2> QED BY <1>5, <1>8, <2>1
  <1> QED BY <1>6, <1>7, <1>9 DEF ReportsInv

LEMMA ReferKeeps ==
  ASSUME ReportsInv, NEW ref \in Mrs \cup Branches, NEW state \in RefStates,
         NEW stories \in SUBSET Stories, Refer(ref, state, stories)
  PROVE  ReportsInv'
  <1>1. /\ refs' = [refs EXCEPT ![ref] = [state |-> state, stories |-> stories]]
        /\ UNCHANGED <<phaseOf, active, traces, tags, log, importing, imports>>
    BY DEF Refer, spec
  <1>2. refs' \in [Mrs \cup Branches -> {None} \cup [state : RefStates, stories : SUBSET Stories]]
    BY <1>1 DEF ReportsInv, ReportsTypeOK
  <1>3. ReportsTypeOK'
    BY <1>1, <1>2 DEF ReportsInv, ReportsTypeOK
  <1> QED BY <1>1, <1>3 DEF ReportsInv, ImportStateInv, AloneInv, Past, TakesAll

LEMMA ReferencesKeep == ReportsInv /\ (LinkBranch \/ LinkMergeRequest \/ UpdateMergeRequest) => ReportsInv'
  <1> SUFFICES ASSUME ReportsInv, LinkBranch \/ LinkMergeRequest \/ UpdateMergeRequest
               PROVE  ReportsInv'
    OBVIOUS
  <1>1. CASE LinkBranch
    <2>1. "opened" \in RefStates
      BY DEF RefStates
    <2> QED BY <1>1, <2>1, ChoicesAssumption, ReferKeeps DEF LinkBranch
  <1>2. CASE LinkMergeRequest
    BY <1>2, ChoicesAssumption, ReferKeeps DEF LinkMergeRequest
  <1>3. CASE UpdateMergeRequest
    <2>1. PICK m \in Mrs, state \in RefStates : refs[m] # None /\ Refer(m, state, refs[m].stories)
      BY <1>3 DEF UpdateMergeRequest
    <2>2. refs[m].stories \in SUBSET Stories
      BY <2>1 DEF ReportsInv, ReportsTypeOK
    <2> QED BY <2>1, <2>2, ReferKeeps
  <1> QED BY <1>1, <1>2, <1>3

LEMMA ReportsStepInv == ReportsInv /\ [Next]_vars => ReportsInv'
  <1> SUFFICES ASSUME ReportsInv, [Next]_vars  PROVE ReportsInv'
    OBVIOUS
  <1>1. CASE UNCHANGED vars
    BY <1>1 DEF vars, ReportsInv, ReportsTypeOK, ImportStateInv, AloneInv, Past, TakesAll
  <1>2. CASE Record \/ Execute \/ ImportReport
    BY <1>2, Appended, LoggedKeeps
  <1>3. CASE EndImport
    <2>1. importing' = None /\ UNCHANGED <<phaseOf, active, traces, tags, log, refs, imports>>
      BY <1>3 DEF EndImport, spec
    <2> QED BY <2>1 DEF ReportsInv, ReportsTypeOK, ImportStateInv, AloneInv
  <1>4. CASE CreateScenario \/ UpdateScenario \/ DeleteScenario
    BY <1>4, ScenarioEdits
  <1>5. CASE BeginImport \/ ConsiderNext \/ TakeOver
    BY <1>5, ImportBegins, ImportConsiders, ImportTakesOver
  <1>6. CASE LinkBranch \/ LinkMergeRequest \/ UpdateMergeRequest
    BY <1>6, ReferencesKeep
  <1> QED BY <1>1, <1>2, <1>3, <1>4, <1>5, <1>6 DEF Next

\* The tables, the log, the references and an import under way stay well formed.
THEOREM ReportsTypesCorrect == Spec => []ReportsTypeOK
  <1>1. ReportsInv => ReportsTypeOK
    BY DEF ReportsInv
  <1> QED BY <1>1, ReportsInitInv, ReportsStepInv, PTL DEF Spec

(***************************************************************************)
(* Taking over the scenarios of any feature files: an import that had the  *)
(* table to itself and skipped nothing ends with every scenario linked to  *)
(* the stories the files link it to (import_scenarios_from_features).      *)
(***************************************************************************)
THEOREM MigrationsAreWhole == Spec => MigrationIsWhole
  <1>1. ReportsInv /\ [Next]_vars =>
          [(/\ ImportDone /\ importing' = None
            /\ importing.alone
            /\ importing.force \/ OnDisk \cap Malformed = {})
           => \A sc \in OnDisk : TagsOf(sc) = DiskTags[sc]]_vars
    <2> SUFFICES ASSUME ReportsInv, ImportDone, importing.alone, TakesAll, NEW sc \in OnDisk
                 PROVE  TagsOf(sc) = DiskTags[sc]
      BY DEF TakesAll
    <2>1. sc \in Past
      BY ScenariosAssumption DEF ImportDone, Past, OnDisk
    <2>2. tags[sc] = DiskTags[sc]
      BY <2>1 DEF ReportsInv, AloneInv, ImportDone
    <2> QED BY <2>2 DEF TagsOf, StoredScenarios, OnDisk
  <1> QED BY <1>1, ReportsInitInv, ReportsStepInv, PTL DEF Spec, MigrationIsWhole

-----------------------------------------------------------------------------
(***************************************************************************)
(* Folds.  A fold of the library is the solution, by CHOOSE, of a          *)
(* recursion over the subsets of what is folded.  The solution exists      *)
(* whenever the set is finite and the step stays in a set A.               *)
(***************************************************************************)
LEMMA AllNaturals ==
  ASSUME NEW S \in SUBSET Nat, 0 \in S, \A n \in S : n + 1 \in S
  PROVE  S = Nat
  <1> DEFINE Bad == Nat \ S
  <1> SUFFICES ASSUME Bad # {}  PROVE FALSE
    OBVIOUS
  <1>1. PICK n \in Bad : \A m \in Bad : ~(<<m, n>> \in OpToRel(<, Nat))
    <2>1. Bad \subseteq Nat /\ Bad # {}
      OBVIOUS
    <2> HIDE DEF Bad
    <2> QED BY <2>1, NatLessThanWellFounded, WFMin
  <1>2. \A m \in Bad : ~(m < n)
    BY <1>1 DEF OpToRel
  <1>3. n - 1 \in S
    <2>1. n - 1 \in Nat /\ n - 1 < n
      BY <1>2
    <2> QED BY <1>2, <2>1
  <1>4. (n - 1) + 1 \in S
    BY <1>3
  <1> QED BY <1>2, <1>4

\* pick says which element a step takes out, step what it makes of it.
Shrinks(S, pick) == \A T \in SUBSET S : T # {} => pick[T] \in T
Unrolled(f, D, base, pick, step) ==
    f = [T \in D |-> IF T = {} THEN base ELSE step[pick[T]][f[T \ {pick[T]}]]]
SmallOnes(S, n) == {T \in SUBSET S : Cardinality(T) <= n}

OneLess(U, T) ==
    /\ U \subseteq T /\ IsFiniteSet(T) /\ IsFiniteSet(U)
    /\ Cardinality(T) \in Nat /\ Cardinality(T) > 0
    /\ Cardinality(U) = Cardinality(T) - 1

LEMMA SmallerSet == \A S : IsFiniteSet(S) => \A T \in SUBSET S : \A x \in T : OneLess(T \ {x}, T)
  <1> SUFFICES ASSUME NEW S, IsFiniteSet(S), NEW T \in SUBSET S, NEW x \in T
               PROVE  OneLess(T \ {x}, T)
    OBVIOUS
  <1>1. IsFiniteSet(T)
    BY FS_Subset
  <1>2. IsFiniteSet(T \ {x}) /\ Cardinality(T \ {x}) = Cardinality(T) - 1
    BY <1>1, FS_RemoveElement
  <1>3. Cardinality(T) \in Nat /\ Cardinality(T \ {x}) \in Nat
    BY <1>1, <1>2, FS_CardinalityType
  <1> QED BY <1>1, <1>2, <1>3 DEF OneLess

LEMMA FoldExists ==
  ASSUME NEW S, IsFiniteSet(S), NEW A, NEW base \in A,
         NEW pick, Shrinks(S, pick), NEW step \in [S -> [A -> A]]
  PROVE  \E f \in [SUBSET S -> A] : Unrolled(f, SUBSET S, base, pick, step)
  <1> DEFINE Good == {n \in Nat : \E f \in [SmallOnes(S, n) -> A] :
                                    Unrolled(f, SmallOnes(S, n), base, pick, step)}
  <1>1. 0 \in Good
    <2> DEFINE f == [T \in SmallOnes(S, 0) |-> base]
    <2>1. \A T \in SmallOnes(S, 0) : T = {}
      <3> TAKE T \in SmallOnes(S, 0)
      <3>1. IsFiniteSet(T) /\ T \in SUBSET S /\ Cardinality(T) <= 0
        BY FS_Subset DEF SmallOnes
      <3>2. Cardinality(T) = 0
        BY <3>1, FS_CardinalityType
      <3> QED BY <3>1, <3>2, FS_EmptySet
    <2>2. f \in [SmallOnes(S, 0) -> A]
      OBVIOUS
    <2>3. Unrolled(f, SmallOnes(S, 0), base, pick, step)
      BY <2>1 DEF Unrolled
    <2> QED BY <2>2, <2>3
  <1>2. ASSUME NEW n \in Good  PROVE n + 1 \in Good
    <2>1. PICK f \in [SmallOnes(S, n) -> A] : Unrolled(f, SmallOnes(S, n), base, pick, step)
      OBVIOUS
    <2> DEFINE g == [T \in SmallOnes(S, n + 1) |->
                       IF T = {} THEN base ELSE step[pick[T]][f[T \ {pick[T]}]]]
    <2>2. ASSUME NEW T \in SmallOnes(S, n + 1), T # {}
          PROVE  /\ pick[T] \in T /\ pick[T] \in S
                 /\ T \ {pick[T]} \in SmallOnes(S, n) /\ T \ {pick[T]} \in SmallOnes(S, n + 1)
      <3>1. pick[T] \in T /\ T \in SUBSET S
        BY <2>2 DEF Shrinks, SmallOnes
      <3>2. OneLess(T \ {pick[T]}, T)
        BY <3>1, SmallerSet
      <3> QED BY <3>1, <3>2 DEF OneLess, SmallOnes
    <2>3. g \in [SmallOnes(S, n + 1) -> A]
      <3> SUFFICES ASSUME NEW T \in SmallOnes(S, n + 1), T # {}
                   PROVE  step[pick[T]][f[T \ {pick[T]}]] \in A
        OBVIOUS
      <3>1. pick[T] \in S /\ f[T \ {pick[T]}] \in A
        BY <2>2
      <3> QED BY <3>1
    <2>4. \A T \in SmallOnes(S, n) : T \in SmallOnes(S, n + 1) => g[T] = f[T]
      BY <2>1 DEF Unrolled
    <2>5. Unrolled(g, SmallOnes(S, n + 1), base, pick, step)
      <3>1. \A T \in SmallOnes(S, n + 1) : T # {} => g[T \ {pick[T]}] = f[T \ {pick[T]}]
        BY <2>2, <2>4
      <3> QED BY <3>1 DEF Unrolled
    <2> HIDE DEF g
    <2> QED BY <2>3, <2>5
  <1> HIDE DEF Good
  <1>3. Cardinality(S) \in Good
    <2>1. Good = Nat
      <3>1. Good \subseteq Nat
        BY DEF Good
      <3> QED BY <1>1, <1>2, <3>1, AllNaturals
    <2> QED BY <2>1, FS_CardinalityType
  <1>4. SmallOnes(S, Cardinality(S)) = SUBSET S
    <2>1. \A T \in SUBSET S : Cardinality(T) <= Cardinality(S)
      BY FS_Subset
    <2> QED BY <2>1 DEF SmallOnes
  <1> QED BY <1>3, <1>4 DEF Good

\* A fold over the numbers up to n takes the last one out first.
LEMMA LastOfFirst ==
  ASSUME NEW k \in Nat, k > 0
  PROVE  Max(1 .. k) = k /\ 1 .. k # {} /\ (1 .. k) \ {k} = 1 .. (k - 1)
  <1>1. k \in 1 .. k /\ \A y \in 1 .. k : k >= y
    OBVIOUS
  <1>2. \A x \in 1 .. k : (\A y \in 1 .. k : x >= y) => x = k
    OBVIOUS
  <1>3. Max(1 .. k) = k
    BY <1>1, <1>2 DEF Max
  <1> QED BY <1>1, <1>3

LEMMA MaxOfSome == \A n \in Nat : \A T \in SUBSET (1 .. n) : T # {} => Max(T) \in T
  <1> DEFINE Has(T) == \E x \in T : \A y \in T : x >= y
             Good == {n \in Nat : \A T \in SUBSET (1 .. n) : T # {} => Has(T)}
  <1>1. 0 \in Good
    <2>1. 1 .. 0 = {}
      OBVIOUS
    <2> QED BY <2>1
  <1>2. ASSUME NEW n \in Good  PROVE n + 1 \in Good
    <2>1. ASSUME NEW T \in SUBSET (1 .. (n + 1)), T # {}  PROVE Has(T)
      <3>1. CASE n + 1 \in T
        BY <3>1
      <3>2. CASE n + 1 \notin T
        <4>1. T \in SUBSET (1 .. n)
          BY <3>2
        <4> QED BY <2>1, <4>1
      <3> QED BY <3>1, <3>2
    <2> QED BY <2>1
  <1>3. Good = Nat
    <2>1. Good \subseteq Nat
      OBVIOUS
    <2> HIDE DEF Good
    <2> QED BY <1>1, <1>2, <2>1, AllNaturals
  <1>4. \A n \in Nat : \A T \in SUBSET (1 .. n) : T # {} => Has(T)
    BY <1>3
  <1> QED BY <1>4 DEF Max

FoldsDown(f, n, A, base, step) ==
    /\ f \in [SUBSET (1 .. n) -> A]
    /\ f = [T \in SUBSET (1 .. n) |-> IF T = {} THEN base ELSE step[Max(T)][f[T \ {Max(T)}]]]

LEMMA DownFold ==
  ASSUME NEW n \in Nat, NEW A, NEW base \in A, NEW step \in [1 .. n -> [A -> A]]
  PROVE  \E f : FoldsDown(f, n, A, base, step)
  <1> DEFINE pick == [T \in SUBSET (1 .. n) |-> Max(T)]
  <1>1. IsFiniteSet(1 .. n)
    BY FS_Interval
  <1>2. Shrinks(1 .. n, pick)
    BY MaxOfSome DEF Shrinks
  <1>3. \A T \in SUBSET (1 .. n) : pick[T] = Max(T)
    OBVIOUS
  <1> HIDE DEF pick
  <1>4. PICK f \in [SUBSET (1 .. n) -> A] : Unrolled(f, SUBSET (1 .. n), base, pick, step)
    BY <1>1, <1>2, FoldExists
  <1>5. f = [T \in SUBSET (1 .. n) |-> IF T = {} THEN base ELSE step[Max(T)][f[T \ {Max(T)}]]]
    BY <1>3, <1>4 DEF Unrolled
  <1> QED BY <1>5 DEF FoldsDown

(***************************************************************************)
(* A finite set can be enumerated in any total order.                      *)
(***************************************************************************)
Ordered(S, R) ==
    /\ \A x, y \in S : <<x, y>> \in R \/ <<y, x>> \in R
    /\ \A x, y, z \in S : <<x, y>> \in R /\ <<y, z>> \in R => <<x, z>> \in R
HasLast(T, R) == \E m \in T : \A x \in T : <<x, m>> \in R
Enumerates(f, n, T, R) ==
    /\ f \in [1 .. n -> T] /\ IsInjective(f)
    /\ \A i, j \in 1 .. n : i <= j => <<f[i], f[j]>> \in R

LEMMA LastExists ==
  ASSUME NEW S, IsFiniteSet(S), NEW R, Ordered(S, R)
  PROVE  \A T \in SUBSET S : T # {} => HasLast(T, R)
  <1> DEFINE Good == {n \in Nat : \A T \in SUBSET S : Cardinality(T) = n => T = {} \/ HasLast(T, R)}
  <1>1. 0 \in Good
    <2>1. \A T \in SUBSET S : Cardinality(T) = 0 => T = {}
      BY FS_Subset, FS_EmptySet
    <2> QED BY <2>1
  <1>2. ASSUME NEW n \in Good  PROVE n + 1 \in Good
    <2>1. ASSUME NEW T \in SUBSET S, Cardinality(T) = n + 1, NEW x \in T  PROVE HasLast(T, R)
      <3> DEFINE U == T \ {x}
      <3>1. OneLess(U, T)
        BY SmallerSet
      <3>2. U \in SUBSET S /\ Cardinality(U) = n
        BY <2>1, <3>1 DEF OneLess
      <3>3. U = {} \/ HasLast(U, R)
        BY <3>2
      <3>4. CASE U = {}
        BY <3>4 DEF HasLast, Ordered
      <3>5. CASE HasLast(U, R)
        <4>1. PICK m \in U : \A y \in U : <<y, m>> \in R
          BY <3>5 DEF HasLast
        <4>2. m \in S /\ x \in S
          BY <3>2
        <4>3. CASE <<x, m>> \in R
          BY <4>1, <4>3 DEF HasLast
        <4>4. CASE <<m, x>> \in R
          <5>1. <<x, x>> \in R
            BY <4>2 DEF Ordered
          <5>2. \A y \in U : y \in S
            BY <3>2
          <5>3. \A y \in U : <<y, x>> \in R
            BY <4>1, <4>2, <4>4, <5>2 DEF Ordered
          <5> QED BY <5>1, <5>3 DEF HasLast
        <4> QED BY <4>2, <4>3, <4>4 DEF Ordered
      <3> QED BY <3>3, <3>4, <3>5
    <2> QED BY <2>1
  <1>3. Good = Nat
    <2>1. Good \subseteq Nat
      OBVIOUS
    <2> HIDE DEF Good
    <2> QED BY <1>1, <1>2, <2>1, AllNaturals
  <1> SUFFICES ASSUME NEW T \in SUBSET S, T # {}  PROVE HasLast(T, R)
    OBVIOUS
  <1>4. Cardinality(T) \in Nat
    BY FS_Subset, FS_CardinalityType
  <1> QED BY <1>3, <1>4

LEMMA EnumerationExists ==
  ASSUME NEW S, IsFiniteSet(S), NEW R, Ordered(S, R)
  PROVE  \E f : Enumerates(f, Cardinality(S), S, R)
  <1> DEFINE Good == {n \in Nat : \A T \in SUBSET S :
                         Cardinality(T) = n => \E f : Enumerates(f, n, T, R)}
  <1>1. 0 \in Good
    <2>1. ASSUME NEW T \in SUBSET S, Cardinality(T) = 0  PROVE \E f : Enumerates(f, 0, T, R)
      <3> DEFINE f == [i \in 1 .. 0 |-> i]
      <3>1. f \in [1 .. 0 -> T] /\ DOMAIN f = {} /\ 1 .. 0 = {}
        BY SMT
      <3>2. Enumerates(f, 0, T, R)
        BY <3>1 DEF Enumerates, IsInjective
      <3> QED BY <3>2
    <2> QED BY <2>1
  <1>2. ASSUME NEW n \in Good  PROVE n + 1 \in Good
    <2>1. ASSUME NEW T \in SUBSET S, Cardinality(T) = n + 1  PROVE \E f : Enumerates(f, n + 1, T, R)
      <3>1. T # {}
        BY <2>1, FS_EmptySet
      <3>2. PICK m \in T : \A x \in T : <<x, m>> \in R
        BY <3>1, LastExists DEF HasLast
      <3> DEFINE U == T \ {m}
      <3>3. OneLess(U, T)
        BY SmallerSet
      <3>4. U \in SUBSET S /\ Cardinality(U) = n
        BY <2>1, <3>3 DEF OneLess
      <3>5. PICK f : Enumerates(f, n, U, R)
        BY <3>4
      <3> DEFINE g == [i \in 1 .. (n + 1) |-> IF i = n + 1 THEN m ELSE f[i]]
      <3>6. \A i \in 1 .. n : f[i] \in T /\ f[i] # m /\ g[i] = f[i] /\ i \in 1 .. (n + 1)
        BY <3>5 DEF Enumerates
      <3>7. n + 1 \in 1 .. (n + 1) /\ g[n + 1] = m
        OBVIOUS
      <3>8. \A i \in 1 .. (n + 1) : i \in 1 .. n \/ i = n + 1
        OBVIOUS
      <3>9. g \in [1 .. (n + 1) -> T] /\ DOMAIN g = 1 .. (n + 1)
        BY <3>6, <3>8
      <3> HIDE DEF g
      <3>10. ASSUME NEW i \in 1 .. (n + 1), NEW j \in 1 .. (n + 1), g[i] = g[j]  PROVE i = j
        BY <3>5, <3>6, <3>7, <3>8, <3>10 DEF Enumerates, IsInjective
      <3>11. ASSUME NEW i \in 1 .. (n + 1), NEW j \in 1 .. (n + 1), i <= j
             PROVE  <<g[i], g[j]>> \in R
        <4>1. CASE j = n + 1
          BY <3>2, <3>7, <3>9, <4>1
        <4>2. CASE j \in 1 .. n
          <5>1. i \in 1 .. n
            BY <3>11, <4>2
          <5> QED BY <3>5, <3>6, <3>11, <4>2, <5>1 DEF Enumerates
        <4> QED BY <3>8, <4>1, <4>2
      <3>12. Enumerates(g, n + 1, T, R)
        BY <3>9, <3>10, <3>11 DEF Enumerates, IsInjective
      <3> QED BY <3>12
    <2> QED BY <2>1
  <1>3. Good = Nat
    <2>1. Good \subseteq Nat
      OBVIOUS
    <2> HIDE DEF Good
    <2> QED BY <1>1, <1>2, <2>1, AllNaturals
  <1>4. Cardinality(S) \in Nat /\ S \in SUBSET S
    BY FS_CardinalityType
  <1> QED BY <1>3, <1>4

(***************************************************************************)
(* resolveLatestRuns.  The phases and the log are enumerated in order; the *)
(* order of the phases does not depend on the state.                       *)
(***************************************************************************)
LEMMA Bijective ==
  ASSUME NEW S, IsFiniteSet(S), NEW R, NEW f, Enumerates(f, Cardinality(S), S, R)
  PROVE  \A x \in S : \E i \in 1 .. Cardinality(S) : f[i] = x
  <1>1. Cardinality(S) \in Nat
    BY FS_CardinalityType
  <1>2. IsFiniteSet(1 .. Cardinality(S)) /\ Cardinality(1 .. Cardinality(S)) = Cardinality(S)
    BY <1>1, FS_Interval
  <1>3. f \in Injection(1 .. Cardinality(S), S)
    BY DEF Enumerates, Injection
  <1>4. f \in Surjection(1 .. Cardinality(S), S)
    BY <1>2, <1>3, FS_Injection
  <1> QED BY <1>4 DEF Surjection

NumPhases == Cardinality(Phases)
PhasesUpTo == {r \in Phases \X Phases : PhaseOrder[r[1]] <= PhaseOrder[r[2]]}
LogOrder == {r \in (DOMAIN log) \X (DOMAIN log) : NotLater(r[1], r[2])}

LEMMA PhasesEnumerated == NumPhases \in Nat /\ Enumerates(PhasesInOrder, NumPhases, Phases, PhasesUpTo)
  <1>1. NumPhases \in Nat
    BY FiniteAssumption, FS_CardinalityType DEF NumPhases
  <1>2. \A x, y \in Phases : <<x, y>> \in PhasesUpTo <=> PhaseOrder[x] <= PhaseOrder[y]
    BY DEF PhasesUpTo
  <1>3. Ordered(Phases, PhasesUpTo)
    <2>1. \A x \in Phases : PhaseOrder[x] \in Int
      BY PhaseOrderAssumption
    <2> QED BY <1>2, <2>1 DEF Ordered
  <1>4. PICK f : Enumerates(f, NumPhases, Phases, PhasesUpTo)
    BY <1>3, FiniteAssumption, EnumerationExists DEF NumPhases
  <1>5. /\ f \in [1 .. Cardinality(Phases) -> Phases] /\ IsInjective(f)
        /\ \A i, j \in 1 .. Cardinality(Phases) : i <= j => PhaseOrder[f[i]] <= PhaseOrder[f[j]]
    BY <1>2, <1>4 DEF Enumerates, NumPhases
  <1>6. /\ PhasesInOrder \in [1 .. Cardinality(Phases) -> Phases] /\ IsInjective(PhasesInOrder)
        /\ \A i, j \in 1 .. Cardinality(Phases) :
              i <= j => PhaseOrder[PhasesInOrder[i]] <= PhaseOrder[PhasesInOrder[j]]
    BY <1>5 DEF PhasesInOrder, InOrder
  <1>7. \A i, j \in 1 .. Cardinality(Phases) :
              i <= j => <<PhasesInOrder[i], PhasesInOrder[j]>> \in PhasesUpTo
    BY <1>2, <1>6
  <1> QED BY <1>1, <1>6, <1>7 DEF Enumerates, NumPhases

LEMMA LogFacts ==
  ASSUME log \in Seq(Execution)
  PROVE  /\ Len(log) \in Nat /\ DOMAIN log = 1 .. Len(log) /\ IsFiniteSet(DOMAIN log)
         /\ Cardinality(DOMAIN log) = Len(log)
         /\ \A i \in DOMAIN log : i \in Nat /\ log[i] \in Execution /\ log[i].at \in Nat
  <1>1. Len(log) \in Nat /\ DOMAIN log = 1 .. Len(log)
    OBVIOUS
  <1>2. IsFiniteSet(1 .. Len(log)) /\ Cardinality(1 .. Len(log)) = Len(log)
    BY <1>1, FS_Interval
  <1>3. \A i \in 1 .. Len(log) : log[i] \in Execution
    OBVIOUS
  <1>4. \A e \in Execution : e.at \in Nat
    BY ScenariosAssumption DEF Execution
  <1> QED BY <1>1, <1>2, <1>3, <1>4

LEMMA InLogOrder == \A x, y \in DOMAIN log : <<x, y>> \in LogOrder <=> NotLater(x, y)
  BY DEF LogOrder

LEMMA LogOrdered == log \in Seq(Execution) => Ordered(DOMAIN log, LogOrder)
  <1> SUFFICES ASSUME log \in Seq(Execution)  PROVE Ordered(DOMAIN log, LogOrder)
    OBVIOUS
  <1>1. \A i \in DOMAIN log : i \in Nat /\ log[i].at \in Nat
    BY LogFacts
  <1>2. ASSUME NEW x \in DOMAIN log, NEW y \in DOMAIN log
        PROVE  <<x, y>> \in LogOrder \/ <<y, x>> \in LogOrder
    <2>1. NotLater(x, y) \/ NotLater(y, x)
      BY <1>1 DEF NotLater
    <2> QED BY <2>1, InLogOrder
  <1>3. ASSUME NEW x \in DOMAIN log, NEW y \in DOMAIN log, NEW z \in DOMAIN log,
               <<x, y>> \in LogOrder, <<y, z>> \in LogOrder
        PROVE  <<x, z>> \in LogOrder
    <2>1. NotLater(x, y) /\ NotLater(y, z)
      BY <1>3, InLogOrder
    <2>2. NotLater(x, z)
      BY <1>1, <2>1 DEF NotLater
    <2> QED BY <2>2, InLogOrder
  <1> QED BY <1>2, <1>3 DEF Ordered

LEMMA LogEnumerated ==
  ASSUME log \in Seq(Execution)
  PROVE  Enumerates(ByTime, Len(log), DOMAIN log, LogOrder)
  <1>1. IsFiniteSet(DOMAIN log) /\ Cardinality(DOMAIN log) = Len(log)
    BY LogFacts
  <1>2. \A x, y \in DOMAIN log : <<x, y>> \in LogOrder <=> NotLater(x, y)
    BY InLogOrder
  <1>3. Ordered(DOMAIN log, LogOrder)
    BY LogOrdered
  <1>4. PICK f : Enumerates(f, Len(log), DOMAIN log, LogOrder)
    BY <1>1, <1>3, EnumerationExists
  <1>5. /\ f \in [1 .. Cardinality(DOMAIN log) -> DOMAIN log] /\ IsInjective(f)
        /\ \A i, j \in 1 .. Cardinality(DOMAIN log) : i <= j => NotLater(f[i], f[j])
    BY <1>1, <1>2, <1>4 DEF Enumerates
  <1>6. /\ ByTime \in [1 .. Cardinality(DOMAIN log) -> DOMAIN log] /\ IsInjective(ByTime)
        /\ \A i, j \in 1 .. Cardinality(DOMAIN log) : i <= j => NotLater(ByTime[i], ByTime[j])
    BY <1>5 DEF ByTime, InOrder
  <1>7. \A i, j \in 1 .. Cardinality(DOMAIN log) : i <= j => <<ByTime[i], ByTime[j]>> \in LogOrder
    BY <1>2, <1>6
  <1> QED BY <1>1, <1>6, <1>7 DEF Enumerates

LEMMA UpTo ==
  ASSUME NEW n \in Nat, NEW S, 0 \in S, \A k \in 1 .. n : k - 1 \in S => k \in S
  PROVE  0 .. n \subseteq S
  <1> DEFINE Good == {k \in Nat : k <= n => k \in S}
  <1>1. 0 \in Good /\ Good \subseteq Nat
    OBVIOUS
  <1>2. ASSUME NEW k \in Good  PROVE k + 1 \in Good
    <2>1. k + 1 <= n => k + 1 \in 1 .. n /\ (k + 1) - 1 = k /\ k \in S
      OBVIOUS
    <2> QED BY <2>1
  <1>3. Good = Nat
    <2> HIDE DEF Good
    <2> QED BY <1>1, <1>2, AllNaturals
  <1> QED BY <1>3

LatestSet == [Scenarios -> Nat]
Put(latest, p, i) == IF log[i].phase = p THEN [latest EXCEPT ![log[i].sc] = i] ELSE latest
OverwriteChain(c, latest, p) ==
    /\ c \in [0 .. Len(log) -> LatestSet]
    /\ c[0] = latest
    /\ \A k \in 1 .. Len(log) : c[k] = Put(c[k - 1], p, ByTime[k])
    /\ Overwrite(latest, p) = c[Len(log)]

LEMMA TimesTyped ==
  ASSUME log \in Seq(Execution)
  PROVE  /\ ByTime \in [1 .. Len(log) -> 1 .. Len(log)] /\ DOMAIN ByTime = 1 .. Len(log)
         /\ \A k \in 1 .. Len(log) : /\ ByTime[k] \in Nat /\ ByTime[k] \in DOMAIN log
                                     /\ log[ByTime[k]] \in Execution
  <1>1. ByTime \in [1 .. Len(log) -> DOMAIN log] /\ DOMAIN log = 1 .. Len(log)
    BY LogEnumerated DEF Enumerates
  <1> QED BY <1>1, LogFacts

LEMMA OverwriteSteps ==
  ASSUME log \in Seq(Execution), NEW latest \in LatestSet, NEW p
  PROVE  \E c : OverwriteChain(c, latest, p)
  <1> DEFINE n == Len(log)
             step == [k \in 1 .. n |-> [a \in LatestSet |-> Put(a, p, ByTime[k])]]
             Steps(f) == f = [s \in SUBSET DOMAIN ByTime |->
                IF s = {} THEN latest ELSE LET x == Max(s) IN Put(f[s \ {x}], p, ByTime[x])]
  <1>1. n \in Nat
    BY LogFacts
  <1>2. \A k \in 1 .. n : \A a \in LatestSet : Put(a, p, ByTime[k]) \in LatestSet
    <2> TAKE k \in 1 .. n
    <2> TAKE a \in LatestSet
    <2>1. log[ByTime[k]].sc \in Scenarios /\ ByTime[k] \in Nat
      BY TimesTyped DEF Execution
    <2>2. [a EXCEPT ![log[ByTime[k]].sc] = ByTime[k]] \in LatestSet
      BY <2>1 DEF LatestSet
    <2> QED BY <2>2 DEF Put
  <1>3. step \in [1 .. n -> [LatestSet -> LatestSet]]
    BY <1>2
  <1>4. \A k \in 1 .. n : \A a \in LatestSet : step[k][a] = Put(a, p, ByTime[k])
    BY <1>2
  <1>5. \E f : FoldsDown(f, n, LatestSet, latest, step)
    <2> HIDE DEF step, n
    <2> QED BY <1>1, <1>3, DownFold
  <1>6. PICK f \in [SUBSET (1 .. n) -> LatestSet] :
            f = [T \in SUBSET (1 .. n) |-> IF T = {} THEN latest ELSE step[Max(T)][f[T \ {Max(T)}]]]
    <2> HIDE DEF step
    <2> QED BY <1>5 DEF FoldsDown
  <1>7. Steps(f)
    <2>1. ASSUME NEW T \in SUBSET (1 .. n), T # {}
          PROVE  f[T] = Put(f[T \ {Max(T)}], p, ByTime[Max(T)])
      <3>1. Max(T) \in 1 .. n /\ T \ {Max(T)} \in SUBSET (1 .. n)
        BY <1>1, <2>1, MaxOfSome
      <3>2. f[T \ {Max(T)}] \in LatestSet
        BY <3>1
      <3> HIDE DEF step
      <3>3. f[T] = step[Max(T)][f[T \ {Max(T)}]]
        BY <1>6, <2>1
      <3> QED BY <1>4, <3>1, <3>2, <3>3
    <2>2. f[{}] = latest
      BY <1>6
    <2>3. DOMAIN ByTime = 1 .. n
      BY TimesTyped
    <2> HIDE DEF step
    <2> QED BY <1>6, <2>1, <2>2, <2>3
  <1> DEFINE g == CHOOSE g : Steps(g)
  <1>8. Steps(g)
    BY <1>7
  <1>9. Overwrite(latest, p) = g[DOMAIN ByTime]
    BY DEF Overwrite, FoldLeft, MapThenFoldSet, Put
  <1> HIDE DEF g, step
  <1>10. DOMAIN ByTime = 1 .. n /\ \A k \in 0 .. n : 1 .. k \in SUBSET (1 .. n)
    BY <1>1, TimesTyped
  <1> DEFINE c == [k \in 0 .. n |-> g[1 .. k]]
  <1>11. c[0] = latest
    <2>1. 1 .. 0 = {} /\ 0 \in 0 .. n /\ {} \in SUBSET (1 .. n)
      BY <1>1
    <2> QED BY <1>8, <1>10, <2>1
  <1>12. ASSUME NEW k \in 1 .. n  PROVE c[k] = Put(c[k - 1], p, ByTime[k])
    <2>1. Max(1 .. k) = k /\ 1 .. k # {} /\ (1 .. k) \ {k} = 1 .. (k - 1)
      BY LastOfFirst
    <2>2. k \in 0 .. n /\ k - 1 \in 0 .. n /\ 1 .. k \in SUBSET DOMAIN ByTime
      BY <1>1, <1>10
    <2>3. g[1 .. k] = Put(g[(1 .. k) \ {Max(1 .. k)}], p, ByTime[Max(1 .. k)])
      BY <1>8, <2>1, <2>2
    <2>4. g[1 .. k] = Put(g[1 .. (k - 1)], p, ByTime[k])
      BY <2>1, <2>3
    <2> QED BY <2>2, <2>4
  <1>13. Overwrite(latest, p) = c[n]
    BY <1>1, <1>9, <1>10
  <1>14. DOMAIN c = 0 .. n /\ c = [k \in DOMAIN c |-> c[k]]
    OBVIOUS
  <1> HIDE DEF c
  <1>15. 0 .. n \subseteq {k \in 0 .. n : c[k] \in LatestSet}
    <2> DEFINE Typed == {k \in 0 .. n : c[k] \in LatestSet}
    <2>1. 0 \in Typed
      BY <1>1, <1>11
    <2>2. ASSUME NEW k \in 1 .. n, k - 1 \in Typed  PROVE k \in Typed
      BY <1>1, <1>2, <1>12, <2>2
    <2> HIDE DEF Typed
    <2>3. 0 .. n \subseteq Typed
      BY <1>1, <2>1, <2>2, UpTo
    <2> QED BY <2>3 DEF Typed
  <1>16. c \in [0 .. n -> LatestSet]
    BY <1>14, <1>15
  <1>17. OverwriteChain(c, latest, p)
    BY <1>11, <1>12, <1>13, <1>16 DEF OverwriteChain
  <1> QED BY <1>17

\* The runs of a scenario in a phase, and the last of them.
RunsOf(p, sc) == {i \in DOMAIN log : log[i].phase = p /\ log[i].sc = sc}
IsLastOf(i, runs) == i \in runs /\ \A j \in runs : NotLater(j, i)
LastElse(i, runs, before) == IF runs = {} THEN i = before ELSE IsLastOf(i, runs)

LEMMA LaterAgain == \A i, runs, before : LastElse(i, runs, before) => i \in runs \cup {before}
  BY DEF LastElse, IsLastOf

LEMMA OverwriteLast ==
  ASSUME log \in Seq(Execution), NEW latest \in LatestSet, NEW p
  PROVE  /\ Overwrite(latest, p) \in LatestSet
         /\ \A sc \in Scenarios : LastElse(Overwrite(latest, p)[sc], RunsOf(p, sc), latest[sc])
  <1> DEFINE n == Len(log)
             Taken(k) == {ByTime[j] : j \in 1 .. k}
  <1>1. n \in Nat
    BY LogFacts
  <1>2. PICK c : OverwriteChain(c, latest, p)
    BY OverwriteSteps
  <1>3. Overwrite(latest, p) = c[n] /\ c[n] \in LatestSet
    BY <1>1, <1>2 DEF OverwriteChain
  <1>4. ASSUME NEW sc \in Scenarios
        PROVE  LastElse(c[n][sc], RunsOf(p, sc), latest[sc])
    <2> DEFINE Mine(k) == RunsOf(p, sc) \cap Taken(k)
               Good == {k \in 0 .. n : LastElse(c[k][sc], Mine(k), latest[sc])}
    <2>1. 0 \in Good
      <3>1. c[0] = latest /\ 0 \in 0 .. n /\ 1 .. 0 = {}
        BY <1>1, <1>2 DEF OverwriteChain
      <3>2. Mine(0) = {}
        BY <3>1
      <3> QED BY <3>1, <3>2 DEF LastElse
    <2>2. ASSUME NEW k \in 1 .. n, k - 1 \in Good  PROVE k \in Good
      <3> DEFINE i == ByTime[k]
      <3>1. c[k] = Put(c[k - 1], p, i) /\ c[k - 1] \in LatestSet /\ k \in 0 .. n
        <4>1. k - 1 \in 0 .. n /\ k \in 0 .. n
          BY <1>1
        <4> QED BY <1>2, <4>1 DEF OverwriteChain
      <3>2. Taken(k) = Taken(k - 1) \cup {i}
        <4>1. 1 .. k = (1 .. (k - 1)) \cup {k}
          BY <1>1
        <4> QED BY <4>1
      <3>3. LastElse(c[k - 1][sc], Mine(k - 1), latest[sc])
        BY <2>2
      <3>4. i \in DOMAIN log /\ i \in Nat
        BY TimesTyped
      <3>5. CASE i \in RunsOf(p, sc)
        <4>1. c[k][sc] = i
          BY <3>1, <3>5 DEF Put, RunsOf, LatestSet
        <4>2. \A j \in 1 .. k : NotLater(ByTime[j], i)
          <5>1. \A j \in 1 .. k : j \in 1 .. n /\ j <= k
            BY <1>1
          <5>2. \A j \in 1 .. n : j <= k => <<ByTime[j], i>> \in LogOrder
            BY LogEnumerated DEF Enumerates
          <5>3. \A j \in 1 .. n : ByTime[j] \in DOMAIN log
            BY TimesTyped
          <5> QED BY <3>4, <5>1, <5>2, <5>3, InLogOrder
        <4>3. i \in Mine(k)
          BY <3>2, <3>5
        <4>4. IsLastOf(i, Mine(k))
          BY <4>2, <4>3 DEF IsLastOf
        <4> QED BY <3>1, <4>1, <4>3, <4>4 DEF LastElse
      <3>6. CASE i \notin RunsOf(p, sc)
        <4>1. c[k][sc] = c[k - 1][sc]
          BY <3>1, <3>4, <3>6 DEF Put, RunsOf, LatestSet
        <4>2. Mine(k) = Mine(k - 1)
          BY <3>2, <3>6
        <4> QED BY <3>1, <3>3, <4>1, <4>2
      <3> QED BY <3>5, <3>6
    <2> HIDE DEF Good
    <2>3. 0 .. n \subseteq Good
      BY <1>1, <2>1, <2>2, UpTo
    <2>4. LastElse(c[n][sc], Mine(n), latest[sc])
      <3>1. n \in 0 .. n
        BY <1>1
      <3>2. n \in Good
        BY <2>3, <3>1
      <3> QED BY <3>2 DEF Good
    <2>5. DOMAIN log \subseteq Taken(n)
      <3>1. IsFiniteSet(DOMAIN log) /\ Cardinality(DOMAIN log) = n
        BY LogFacts
      <3>2. \A x \in DOMAIN log : \E j \in 1 .. n : ByTime[j] = x
        BY <3>1, LogEnumerated, Bijective
      <3> QED BY <3>2
    <2>6. Mine(n) = RunsOf(p, sc)
      BY <2>5 DEF RunsOf
    <2> QED BY <2>4, <2>6
  <1> QED BY <1>3, <1>4

\* The values a fold goes through, one per number.
Chain(c, n, A, base, step) ==
    /\ c \in [0 .. n -> A]
    /\ c[0] = base
    /\ \A k \in 1 .. n : c[k] = step[k][c[k - 1]]

LEMMA ChainOf ==
  ASSUME NEW n \in Nat, NEW A, NEW base \in A, NEW step \in [1 .. n -> [A -> A]], NEW g,
         g[{}] = base, \A k \in 1 .. n : g[1 .. (k - 1)] \in A => g[1 .. k] = step[k][g[1 .. (k - 1)]]
  PROVE  Chain([k \in 0 .. n |-> g[1 .. k]], n, A, base, step)
  <1> DEFINE c == [k \in 0 .. n |-> g[1 .. k]]
             Typed == {k \in 0 .. n : c[k] \in A}
  <1>1. 1 .. 0 = {} /\ 0 \in 0 .. n
    OBVIOUS
  <1>2. c[0] = base
    BY <1>1
  <1>3. ASSUME NEW k \in 1 .. n, c[k - 1] \in A  PROVE c[k] = step[k][c[k - 1]] /\ c[k] \in A
    <2>1. k \in 0 .. n /\ k - 1 \in 0 .. n
      OBVIOUS
    <2>2. c[k] = g[1 .. k] /\ c[k - 1] = g[1 .. (k - 1)]
      BY <2>1
    <2> HIDE DEF c
    <2>3. c[k] = step[k][c[k - 1]]
      BY <1>3, <2>2
    <2> QED BY <1>3, <2>3
  <1>4. DOMAIN c = 0 .. n /\ c = [k \in DOMAIN c |-> c[k]]
    OBVIOUS
  <1> HIDE DEF c
  <1>5. 0 \in Typed
    BY <1>1, <1>2
  <1>6. ASSUME NEW k \in 1 .. n, k - 1 \in Typed  PROVE k \in Typed
    BY <1>3, <1>6
  <1>7. 0 .. n \subseteq Typed
    <2> HIDE DEF Typed
    <2> QED BY <1>5, <1>6, UpTo
  <1>8. \A k \in 0 .. n : c[k] \in A
    BY <1>7
  <1>9. \A k \in 1 .. n : k - 1 \in 0 .. n
    OBVIOUS
  <1>10. c \in [0 .. n -> A]
    BY <1>4, <1>8
  <1>11. \A k \in 1 .. n : c[k] = step[k][c[k - 1]]
    BY <1>3, <1>8, <1>9
  <1>12. Chain(c, n, A, base, step)
    BY <1>2, <1>10, <1>11 DEF Chain
  <1> QED BY <1>12 DEF c

NoRun == [sc \in Scenarios |-> 0]
After(latest, p, F) == IF p \in F THEN Overwrite(latest, p) ELSE latest
PhaseSteps(F) == [k \in 1 .. NumPhases |-> [latest \in LatestSet |-> After(latest, PhasesInOrder[k], F)]]

LEMMA PhasesTyped ==
  /\ NumPhases \in Nat /\ PhasesInOrder \in [1 .. NumPhases -> Phases]
  /\ DOMAIN PhasesInOrder = 1 .. NumPhases
  BY PhasesEnumerated DEF Enumerates

LEMMA AfterTyped ==
  ASSUME log \in Seq(Execution), NEW F
  PROVE  PhaseSteps(F) \in [1 .. NumPhases -> [LatestSet -> LatestSet]]
  <1>1. \A p : \A latest \in LatestSet : After(latest, p, F) \in LatestSet
    BY OverwriteLast DEF After
  <1> QED BY <1>1 DEF PhaseSteps

LEMMA LatestSteps ==
  ASSUME log \in Seq(Execution), NEW phase, NEW mode
  PROVE  \E c : /\ Chain(c, NumPhases, LatestSet, NoRun, PhaseSteps(FeedingPhases(phase, mode)))
                /\ LatestRuns(phase, mode) = c[NumPhases]
  <1> DEFINE n == NumPhases
             F == FeedingPhases(phase, mode)
             step == PhaseSteps(F)
             Steps(f) == f = [s \in SUBSET DOMAIN PhasesInOrder |->
                IF s = {} THEN NoRun ELSE LET x == Max(s) IN After(f[s \ {x}], PhasesInOrder[x], F)]
             g == CHOOSE g : Steps(g)
  <1>1. n \in Nat /\ DOMAIN PhasesInOrder = 1 .. n
    BY PhasesTyped
  <1>2. step \in [1 .. n -> [LatestSet -> LatestSet]] /\ NoRun \in LatestSet
    BY AfterTyped DEF NoRun, LatestSet
  <1>3. \A k \in 1 .. n : \A a \in LatestSet : step[k][a] = After(a, PhasesInOrder[k], F)
    BY DEF PhaseSteps
  <1>4. LatestRuns(phase, mode) = g[DOMAIN PhasesInOrder]
    BY DEF LatestRuns, FoldLeft, MapThenFoldSet, After, NoRun
  <1>5. PICK f : FoldsDown(f, n, LatestSet, NoRun, step)
    <2> HIDE DEF step, n
    <2> QED BY <1>1, <1>2, DownFold
  <1>6. Steps(f)
    <2> HIDE DEF step, F
    <2>1. ASSUME NEW T \in SUBSET (1 .. n), T # {}
          PROVE  f[T] = After(f[T \ {Max(T)}], PhasesInOrder[Max(T)], F)
      <3>1. Max(T) \in 1 .. n /\ T \ {Max(T)} \in SUBSET (1 .. n)
        BY <1>1, <2>1, MaxOfSome
      <3>2. f[T \ {Max(T)}] \in LatestSet
        BY <1>5, <3>1 DEF FoldsDown
      <3>3. f[T] = step[Max(T)][f[T \ {Max(T)}]]
        BY <1>5, <2>1 DEF FoldsDown
      <3> QED BY <1>3, <3>1, <3>2, <3>3
    <2>2. f[{}] = NoRun /\ f = [T \in SUBSET (1 .. n) |-> f[T]]
      BY <1>5 DEF FoldsDown
    <2> QED BY <1>1, <2>1, <2>2
  <1>7. Steps(g)
    BY <1>6
  <1> HIDE DEF g, step, F
  <1>8. g[{}] = NoRun
    BY <1>7
  <1>9. ASSUME NEW k \in 1 .. n, g[1 .. (k - 1)] \in LatestSet
        PROVE  g[1 .. k] = step[k][g[1 .. (k - 1)]]
    <2>1. Max(1 .. k) = k /\ 1 .. k # {} /\ (1 .. k) \ {k} = 1 .. (k - 1)
      <3>1. k \in Nat /\ k > 0
        BY <1>1
      <3> QED BY <3>1, LastOfFirst
    <2>2. 1 .. k \in SUBSET DOMAIN PhasesInOrder
      BY <1>1
    <2>3. g[1 .. k] = After(g[(1 .. k) \ {Max(1 .. k)}], PhasesInOrder[Max(1 .. k)], F)
      BY <1>7, <2>1, <2>2
    <2> QED BY <1>3, <1>9, <2>1, <2>3
  <1> DEFINE c == [k \in 0 .. n |-> g[1 .. k]]
  <1>10. Chain(c, n, LatestSet, NoRun, step)
    <2> HIDE DEF n
    <2> QED BY <1>1, <1>2, <1>8, <1>9, ChainOf
  <1>11. LatestRuns(phase, mode) = c[n]
    BY <1>1, <1>4
  <1> HIDE DEF c
  <1> QED BY <1>10, <1>11 DEF step, F

(***************************************************************************)
(* What the latest runs are: for each scenario the last of its runs in     *)
(* view, phase after phase and by time in each phase.  There is only one.  *)
(***************************************************************************)
Before(p, q) == \E a, b \in 1 .. NumPhases : a < b /\ PhasesInOrder[a] = p /\ PhasesInOrder[b] = q
NotAfter(j, i) == IF log[j].phase = log[i].phase THEN NotLater(j, i)
                  ELSE Before(log[j].phase, log[i].phase)
RunsIn(F, sc) == {i \in DOMAIN log : log[i].sc = sc /\ log[i].phase \in F}
IsLatest(i, runs) == IF runs = {} THEN i = 0 ELSE i \in runs /\ \A j \in runs : NotAfter(j, i)

LEMMA LatestIsLast ==
  ASSUME log \in Seq(Execution), NEW phase, NEW mode
  PROVE  /\ LatestRuns(phase, mode) \in LatestSet
         /\ \A sc \in Scenarios :
               IsLatest(LatestRuns(phase, mode)[sc], RunsIn(FeedingPhases(phase, mode), sc))
  <1> DEFINE n == NumPhases
             F == FeedingPhases(phase, mode)
             Upto(k) == {PhasesInOrder[a] : a \in 1 .. k}
  <1>1. n \in Nat
    BY PhasesTyped
  <1>2. PICK c : Chain(c, n, LatestSet, NoRun, PhaseSteps(F)) /\ LatestRuns(phase, mode) = c[n]
    BY LatestSteps
  <1>3. LatestRuns(phase, mode) \in LatestSet
    BY <1>1, <1>2 DEF Chain
  <1>4. ASSUME NEW sc \in Scenarios  PROVE IsLatest(c[n][sc], RunsIn(F, sc))
    <2> DEFINE Mine(k) == RunsIn(F \cap Upto(k), sc)
               Good == {k \in 0 .. n : IsLatest(c[k][sc], Mine(k))}
    <2> HIDE DEF F
    <2>1. 0 \in Good
      <3>1. c[0][sc] = 0 /\ 0 \in 0 .. n /\ 1 .. 0 = {}
        BY <1>1, <1>2 DEF Chain, NoRun
      <3>2. Mine(0) = {}
        BY <3>1 DEF RunsIn
      <3> QED BY <3>1, <3>2 DEF IsLatest
    <2>2. ASSUME NEW k \in 1 .. n, k - 1 \in Good  PROVE k \in Good
      <3> DEFINE p == PhasesInOrder[k]
      <3>1. k \in 0 .. n /\ k - 1 \in 0 .. n
        BY <1>1
      <3>2. c[k - 1] \in LatestSet /\ c[k] = After(c[k - 1], p, F)
        BY <1>2, <3>1 DEF Chain, PhaseSteps
      <3>3. Upto(k) = Upto(k - 1) \cup {p}
        <4>1. 1 .. k = (1 .. (k - 1)) \cup {k}
          BY <1>1
        <4> QED BY <4>1
      <3>4. IsLatest(c[k - 1][sc], Mine(k - 1))
        BY <2>2
      <3> HIDE DEF p, Upto
      <3>5. CASE p \in F
        <4>1. LastElse(c[k][sc], RunsOf(p, sc), c[k - 1][sc])
          BY <3>2, <3>5, OverwriteLast DEF After
        <4>2. Mine(k) = Mine(k - 1) \cup RunsOf(p, sc)
          BY <3>3, <3>5 DEF RunsIn, RunsOf
        <4>3. CASE RunsOf(p, sc) = {}
          BY <3>1, <3>4, <4>1, <4>2, <4>3 DEF LastElse
        <4>4. CASE RunsOf(p, sc) # {}
          <5>1. IsLastOf(c[k][sc], RunsOf(p, sc))
            BY <4>1, <4>4 DEF LastElse
          <5>2. PICK i : i = c[k][sc]
            OBVIOUS
          <5>3. i \in RunsOf(p, sc) /\ \A j \in RunsOf(p, sc) : NotLater(j, i)
            BY <5>1, <5>2 DEF IsLastOf
          <5>4. ASSUME NEW j \in Mine(k)  PROVE NotAfter(j, i)
            <6>1. CASE log[j].phase = p
              <7>1. j \in RunsOf(p, sc) /\ log[i].phase = p
                BY <5>3, <6>1 DEF RunsIn, RunsOf
              <7> QED BY <5>3, <6>1, <7>1 DEF NotAfter
            <6>2. CASE log[j].phase # p
              <7>1. log[i].phase = p
                BY <5>3 DEF RunsOf
              <7>2. log[j].phase \in Upto(k - 1)
                BY <3>3, <6>2 DEF RunsIn
              <7>3. PICK a \in 1 .. (k - 1) : PhasesInOrder[a] = log[j].phase
                BY <7>2 DEF Upto
              <7>4. a \in 1 .. n /\ a < k
                BY <1>1
              <7>5. Before(log[j].phase, p)
                BY <7>3, <7>4 DEF Before, p
              <7> QED BY <6>2, <7>1, <7>5 DEF NotAfter
            <6> QED BY <6>1, <6>2
          <5>5. i \in Mine(k)
            BY <4>2, <5>3
          <5>6. IsLatest(c[k][sc], Mine(k))
            <6> HIDE DEF Mine
            <6> QED BY <5>2, <5>4, <5>5 DEF IsLatest
          <5> QED BY <3>1, <5>6
        <4> QED BY <4>3, <4>4
      <3>6. CASE p \notin F
        <4>1. c[k] = c[k - 1]
          BY <3>2, <3>6 DEF After
        <4>2. F \cap Upto(k) = F \cap Upto(k - 1)
          BY <3>3, <3>6
        <4> QED BY <3>1, <3>4, <4>1, <4>2
      <3> QED BY <3>5, <3>6
    <2> HIDE DEF Good
    <2>3. 0 .. n \subseteq Good
      BY <1>1, <2>1, <2>2, UpTo
    <2>4. n \in Good
      BY <1>1, <2>3
    <2>5. IsLatest(c[n][sc], Mine(n))
      BY <2>4 DEF Good
    <2>6. F \cap Upto(n) = F
      <3>1. F \subseteq Phases
        BY DEF F, FeedingPhases
      <3>2. \A x \in Phases : \E a \in 1 .. n : PhasesInOrder[a] = x
        BY FiniteAssumption, PhasesEnumerated, Bijective DEF NumPhases
      <3> QED BY <3>1, <3>2
    <2> QED BY <2>5, <2>6
  <1> QED BY <1>2, <1>3, <1>4

LEMMA BeforeOnce ==
  ASSUME NEW p, NEW q, Before(p, q), Before(q, p)
  PROVE  FALSE
  <1>1. PICK a, b \in 1 .. NumPhases : a < b /\ PhasesInOrder[a] = p /\ PhasesInOrder[b] = q
    BY DEF Before
  <1>2. PICK x, y \in 1 .. NumPhases : x < y /\ PhasesInOrder[x] = q /\ PhasesInOrder[y] = p
    BY DEF Before
  <1>3. a = y /\ b = x
    BY <1>1, <1>2, PhasesEnumerated, PhasesTyped DEF Enumerates, IsInjective
  <1> QED BY <1>1, <1>2, <1>3, PhasesTyped

LEMMA LatestUnique ==
  ASSUME log \in Seq(Execution), NEW runs \in SUBSET DOMAIN log, NEW i, NEW j,
         IsLatest(i, runs), IsLatest(j, runs)
  PROVE  i = j
  <1>1. CASE runs = {}
    BY <1>1 DEF IsLatest
  <1>2. CASE runs # {}
    <2>1. i \in DOMAIN log /\ j \in DOMAIN log /\ NotAfter(i, j) /\ NotAfter(j, i)
      BY <1>2 DEF IsLatest
    <2>2. CASE log[i].phase = log[j].phase
      <3>1. NotLater(i, j) /\ NotLater(j, i)
        BY <2>1, <2>2 DEF NotAfter
      <3>2. i \in Nat /\ j \in Nat /\ log[i].at \in Nat /\ log[j].at \in Nat
        BY <2>1, LogFacts
      <3> QED BY <3>1, <3>2 DEF NotLater
    <2>3. CASE log[i].phase # log[j].phase
      BY <2>1, <2>3, BeforeOnce DEF NotAfter
    <2> QED BY <2>2, <2>3
  <1> QED BY <1>1, <1>2

\* The phases that feed a view are those in its scope.
LEMMA FeedsScope ==
  ASSUME NEW v \in Views, NEW p \in Phases
  PROVE  p \in FeedingPhases(v[1], v[2]) <=> InScope(p, v[1], v[2])
  <1>1. CASE v = <<None, "cumulative">>
    BY <1>1 DEF FeedingPhases, InScope
  <1>2. CASE v \in Phases \X Modes
    <2>1. v[1] \in Phases /\ v[1] # None /\ p # None
      BY <1>2, PhaseOrderAssumption
    <2> QED BY <2>1 DEF FeedingPhases, InScope
  <1> QED BY <1>1, <1>2 DEF Views

LEMMA BeforeIsOrder ==
  ASSUME NEW p, NEW q, Before(p, q)
  PROVE  PhaseOrder[p] <= PhaseOrder[q]
  <1>1. PICK a, b \in 1 .. NumPhases : a < b /\ PhasesInOrder[a] = p /\ PhasesInOrder[b] = q
    BY DEF Before
  <1>2. <<PhasesInOrder[a], PhasesInOrder[b]>> \in PhasesUpTo
    <2>1. a <= b
      BY <1>1, PhasesTyped
    <2> QED BY <2>1, PhasesEnumerated DEF Enumerates
  <1> QED BY <1>1, <1>2 DEF PhasesUpTo

(***************************************************************************)
(* For any phases, scenarios and log, in whatever order runs arrive and    *)
(* whatever clocks say: the run a report shows is the last, by its time,   *)
(* of the last phase in view that has any (resolveLatestRuns).             *)
(***************************************************************************)
THEOREM LatestAlwaysWins == Spec => []LatestWins
  <1>1. ReportsInv => LatestWins
    <2> SUFFICES ASSUME ReportsInv, NEW v \in Views, NEW sc \in Scenarios
                 PROVE  LET inView == {i \in DOMAIN log : /\ log[i].sc = sc
                                                          /\ log[i].phase \in Phases
                                                          /\ InScope(log[i].phase, v[1], v[2])}
                            i == LatestRuns(v[1], v[2])[sc]
                        IN  IF inView = {} THEN i = 0
                            ELSE /\ i \in inView
                                 /\ \A j \in inView :
                                       IF log[j].phase = log[i].phase THEN NotLater(j, i)
                                       ELSE PhaseOrder[log[j].phase] <= PhaseOrder[log[i].phase]
      BY DEF LatestWins
    <2> DEFINE inView == {i \in DOMAIN log : /\ log[i].sc = sc
                                             /\ log[i].phase \in Phases
                                             /\ InScope(log[i].phase, v[1], v[2])}
               i == LatestRuns(v[1], v[2])[sc]
    <2>1. log \in Seq(Execution)
      BY DEF ReportsInv, ReportsTypeOK
    <2>2. IsLatest(i, RunsIn(FeedingPhases(v[1], v[2]), sc))
      BY <2>1, LatestIsLast
    <2>3. RunsIn(FeedingPhases(v[1], v[2]), sc) = inView
      <3>1. FeedingPhases(v[1], v[2]) \subseteq Phases
        BY DEF FeedingPhases
      <3>2. \A p : p \in FeedingPhases(v[1], v[2]) <=> p \in Phases /\ InScope(p, v[1], v[2])
        BY <3>1, FeedsScope
      <3> QED BY <3>2 DEF RunsIn
    <2>4. IsLatest(i, inView)
      BY <2>2, <2>3
    <2> HIDE DEF i, inView
    <2>5. \A j \in inView : NotAfter(j, i)
             => IF log[j].phase = log[i].phase THEN NotLater(j, i)
                ELSE PhaseOrder[log[j].phase] <= PhaseOrder[log[i].phase]
      BY BeforeIsOrder DEF NotAfter
    <2>6. IF inView = {} THEN i = 0
          ELSE /\ i \in inView
               /\ \A j \in inView : IF log[j].phase = log[i].phase THEN NotLater(j, i)
                                    ELSE PhaseOrder[log[j].phase] <= PhaseOrder[log[i].phase]
      BY <2>4, <2>5 DEF IsLatest
    <2> QED BY <2>6 DEF i, inView
  <1> QED BY <1>1, ReportsInitInv, ReportsStepInv, PTL DEF Spec

(***************************************************************************)
(* The traceability chain.                                                 *)
(***************************************************************************)
LEMMA LatestTyped ==
  ASSUME ReportsInv, NEW phase, NEW mode, NEW sc \in Scenarios
  PROVE  LET i == LatestRuns(phase, mode)[sc]
         IN  i = 0 \/ (i \in DOMAIN log /\ log[i] \in Execution)
  <1> DEFINE i == LatestRuns(phase, mode)[sc]
  <1>1. log \in Seq(Execution)
    BY DEF ReportsInv, ReportsTypeOK
  <1>2. IsLatest(i, RunsIn(FeedingPhases(phase, mode), sc))
    BY <1>1, LatestIsLast
  <1>3. i = 0 \/ i \in DOMAIN log
    BY <1>2 DEF IsLatest, RunsIn
  <1> QED BY <1>1, <1>3, LogFacts

LEMMA ScenariosInTrace == \A phase, mode : TraceScenarios(phase, mode) \subseteq Scenarios
  BY DEF TraceScenarios, Dangling, StoredScenarios, ScenariosOf

LEMMA TwoParts ==
  ASSUME NEW A, IsFiniteSet(A), NEW B, IsFiniteSet(B), A \cap B = {}
  PROVE  /\ IsFiniteSet(A \cup B) /\ Cardinality(A) \in Nat /\ Cardinality(B) \in Nat
         /\ Cardinality(A \cup B) = Cardinality(A) + Cardinality(B)
  <1>1. Cardinality(A) \in Nat /\ Cardinality(B) \in Nat /\ Cardinality({}) = 0
    BY FS_CardinalityType, FS_EmptySet
  <1>2. /\ IsFiniteSet(A \cup B)
        /\ Cardinality(A \cup B) = Cardinality(A) + Cardinality(B) - Cardinality(A \cap B)
    BY FS_Union
  <1>3. Cardinality(A \cap B) = 0
    BY <1>1
  <1> QED BY <1>1, <1>2, <1>3

LEMMA FourParts ==
  ASSUME NEW S, IsFiniteSet(S), NEW A, NEW B, NEW C, NEW D,
         S = A \cup B \cup C \cup D,
         A \cap B = {}, A \cap C = {}, A \cap D = {}, B \cap C = {}, B \cap D = {}, C \cap D = {}
  PROVE  Cardinality(S) = Cardinality(A) + Cardinality(B) + Cardinality(C) + Cardinality(D)
  <1>1. IsFiniteSet(A) /\ IsFiniteSet(B) /\ IsFiniteSet(C) /\ IsFiniteSet(D)
    BY FS_Subset
  <1>2. IsFiniteSet(A \cup B) /\ Cardinality(A \cup B) = Cardinality(A) + Cardinality(B)
    BY <1>1, TwoParts
  <1>3. (A \cup B) \cap C = {} /\ (A \cup B \cup C) \cap D = {}
    OBVIOUS
  <1>4. PICK AB : AB = A \cup B
    OBVIOUS
  <1>5. IsFiniteSet(AB \cup C) /\ Cardinality(AB \cup C) = Cardinality(AB) + Cardinality(C)
    BY <1>1, <1>2, <1>3, <1>4, TwoParts
  <1>6. PICK ABC : ABC = AB \cup C
    OBVIOUS
  <1>7. Cardinality(ABC \cup D) = Cardinality(ABC) + Cardinality(D)
    BY <1>1, <1>3, <1>4, <1>5, <1>6, TwoParts
  <1> QED BY <1>2, <1>4, <1>5, <1>6, <1>7

LEMMA CountsAddUp ==
  ASSUME ReportsInv, NEW phase, NEW mode
  PROVE  LET t == TraceSummary(phase, mode)
         IN  t.scenarios = t.neverRun + t.failing + t.pending + t.passing
  <1> DEFINE latest == LatestRuns(phase, mode)
             S == TraceScenarios(phase, mode)
             With4(status) == {sc \in S : TraceStatus(sc, latest) = status}
             t == TraceSummary(phase, mode)
  <1>1. \A sc \in S : TraceStatus(sc, latest) \in {"never_run", "fail", "pending", "pass"}
    <2> SUFFICES ASSUME NEW sc \in S
                 PROVE  TraceStatus(sc, latest) \in {"never_run", "fail", "pending", "pass"}
      OBVIOUS
    <2>1. sc \in Scenarios
      BY ScenariosInTrace
    <2>2. latest[sc] = 0 \/ log[latest[sc]] \in Execution
      BY <2>1, LatestTyped
    <2>3. log[latest[sc]] \in Execution => log[latest[sc]].status \in {"fail", "pending", "pass"}
      BY DEF Execution, Statuses
    <2> QED BY <2>2, <2>3 DEF TraceStatus
  <1>2. IsFiniteSet(S)
    BY FiniteAssumption, ScenariosInTrace, FS_Subset
  <1>3. S = With4("never_run") \cup With4("fail") \cup With4("pending") \cup With4("pass")
    BY <1>1
  <1>4. /\ With4("never_run") \cap With4("fail") = {} /\ With4("never_run") \cap With4("pending") = {}
        /\ With4("never_run") \cap With4("pass") = {} /\ With4("fail") \cap With4("pending") = {}
        /\ With4("fail") \cap With4("pass") = {} /\ With4("pending") \cap With4("pass") = {}
    OBVIOUS
  <1>5. /\ t.scenarios = Cardinality(S) /\ t.neverRun = Cardinality(With4("never_run"))
        /\ t.failing = Cardinality(With4("fail")) /\ t.pending = Cardinality(With4("pending"))
        /\ t.passing = Cardinality(With4("pass"))
    BY DEF TraceSummary
  <1>6. Cardinality(S) = Cardinality(With4("never_run")) + Cardinality(With4("fail"))
                           + Cardinality(With4("pending")) + Cardinality(With4("pass"))
    <2> HIDE DEF With4, S
    <2> QED BY <1>2, <1>3, <1>4, FourParts
  <1> QED BY <1>5, <1>6

LEMMA FilteredIsTraced ==
  ASSUME NEW phase \in Phases, NEW mode
  PROVE  Filtered(phase, mode) = {sc \in StoredScenarios : TraceStories(sc, phase, mode) \ {Lost} # {}}
  <1> SUFFICES ASSUME NEW sc \in StoredScenarios
               PROVE  (\E s \in tags[sc] \cap Stories : StoryInScope(PhasesOf(s), phase, mode))
                      <=> TraceStories(sc, phase, mode) \ {Lost} # {}
    BY PhaseOrderAssumption DEF Filtered
  <1>1. \A s : s \in TraceStories(sc, phase, mode) \ {Lost}
               <=> s \in StoriesIn(phase, mode) /\ sc \in ScenariosOf(s)
    BY LostAssumption DEF TraceStories, Dangling, StoriesIn
  <1>2. \A s : sc \in ScenariosOf(s) <=> s \in tags[sc]
    BY DEF ScenariosOf, TagsOf, StoredScenarios
  <1> QED BY <1>1, <1>2 DEF StoriesIn

(***************************************************************************)
(* For any tables: the filter and the traceability chain of a phase hold   *)
(* the same stored scenarios, tags of lost stories aside, and the chain    *)
(* counts each scenario once (filterScenarios, buildTraceability).         *)
(***************************************************************************)
THEOREM ChainAlwaysWhole == Spec => []ChainIsWhole
  <1>1. ReportsInv => ChainIsWhole
    <2> SUFFICES ASSUME ReportsInv, NEW v \in Phases \X Modes
                 PROVE  /\ Filtered(v[1], v[2])
                             = {sc \in StoredScenarios : TraceStories(sc, v[1], v[2]) \ {Lost} # {}}
                        /\ LET t == TraceSummary(v[1], v[2])
                           IN  t.scenarios = t.neverRun + t.failing + t.pending + t.passing
      BY DEF ChainIsWhole
    <2> QED BY FilteredIsTraced, CountsAddUp
  <1> QED BY <1>1, ReportsInitInv, ReportsStepInv, PTL DEF Spec

-----------------------------------------------------------------------------
(***************************************************************************)
(* A run in a phase that does not feed a view leaves the view as it was:   *)
(* the runs in view stay, and which is the last depends on them alone.     *)
(***************************************************************************)
LatestOK ==
    \A phase, mode :
        /\ LatestRuns(phase, mode) \in LatestSet
        /\ \A sc \in Scenarios :
              IsLatest(LatestRuns(phase, mode)[sc], RunsIn(FeedingPhases(phase, mode), sc))

LEMMA LatestHolds == ReportsInv => LatestOK
  BY LatestIsLast DEF ReportsInv, ReportsTypeOK, LatestOK

LEMMA LatestHoldsNext == ReportsInv' => LatestOK'
  BY LatestHolds, PTL

LEMMA SameRuns ==
  ASSUME ReportsInv, NEW runs, NEW p, Appends(runs, p), NEW F, p \notin F, NEW sc
  PROVE  /\ RunsIn(F, sc)' = RunsIn(F, sc)
         /\ \A i \in RunsIn(F, sc) : i \in DOMAIN log /\ log'[i] = log[i]
  <1>1. log \in Seq(Execution) /\ runs \in Seq(Execution) /\ log' = log \o runs
        /\ \A i \in 1 .. Len(runs) : runs[i].phase = p
    BY DEF ReportsInv, ReportsTypeOK, Appends, Logged
  <1>2. /\ Len(log) \in Nat /\ Len(runs) \in Nat /\ Len(log') = Len(log) + Len(runs)
        /\ DOMAIN log = 1 .. Len(log) /\ DOMAIN log' = 1 .. Len(log')
        /\ \A i \in 1 .. Len(log) : log'[i] = log[i]
    BY <1>1
  <1>3. ASSUME NEW i \in DOMAIN log', i \notin DOMAIN log  PROVE log'[i].phase = p
    <2>1. i - Len(log) \in 1 .. Len(runs) /\ log'[i] = runs[i - Len(log)]
      BY <1>1, <1>2, <1>3
    <2> QED BY <1>1, <2>1
  <1>4. \A i \in DOMAIN log : i \in DOMAIN log'
    BY <1>2
  <1>5. \A i : i \in RunsIn(F, sc)' <=> i \in RunsIn(F, sc)
    BY <1>2, <1>3, <1>4 DEF RunsIn
  <1>6. RunsIn(F, sc)' = RunsIn(F, sc)
    BY <1>5
  <1>7. \A i \in RunsIn(F, sc) : i \in DOMAIN log
    BY DEF RunsIn
  <1> QED BY <1>2, <1>6, <1>7

LEMMA SameOrder == PhasesInOrder' = PhasesInOrder /\ NumPhases' = NumPhases
  BY DEF PhasesInOrder, InOrder, NumPhases, Phases

LEMMA SameLast ==
  ASSUME NEW R, NEW i, \A j \in R : log'[j] = log[j],
         IF R = {} THEN i = 0
         ELSE i \in R /\ \A j \in R : IF log'[j].phase = log'[i].phase
                                     THEN \/ log'[j].at < log'[i].at
                                          \/ log'[j].at = log'[i].at /\ j <= i
                                     ELSE Before(log'[j].phase, log'[i].phase)
  PROVE  IsLatest(i, R)
  BY DEF IsLatest, NotAfter, NotLater

LEMMA SameLatest ==
  ASSUME ReportsInv, ReportsInv', NEW runs, NEW p, Appends(runs, p),
         NEW phase, NEW mode, p \notin FeedingPhases(phase, mode)
  PROVE  /\ LatestRuns(phase, mode)' = LatestRuns(phase, mode)
         /\ \A sc \in Scenarios : Status(LatestRuns(phase, mode), sc)'
                                    = Status(LatestRuns(phase, mode), sc)
  <1> DEFINE F == FeedingPhases(phase, mode)
             latest == LatestRuns(phase, mode)
             after == LatestRuns(phase, mode)'
  <1>1. FeedingPhases(phase, mode)' = FeedingPhases(phase, mode)
    BY DEF FeedingPhases
  <1>2. latest \in LatestSet /\ \A sc \in Scenarios : IsLatest(latest[sc], RunsIn(F, sc))
    BY LatestHolds DEF LatestOK
  <1>3. after \in LatestSet
    BY LatestHoldsNext DEF LatestOK, LatestSet
  <1>4. \A sc \in Scenarios : IsLatest(LatestRuns(phase, mode)[sc], RunsIn(FeedingPhases(phase, mode), sc))'
    BY LatestHoldsNext DEF LatestOK
  <1>5. ASSUME NEW sc \in Scenarios  PROVE after[sc] = latest[sc]
    <2> DEFINE R == RunsIn(F, sc)
               i == after[sc]
    <2>1. RunsIn(F, sc)' = R /\ \A j \in R : j \in DOMAIN log /\ log'[j] = log[j]
      BY SameRuns
    <2>2. RunsIn(FeedingPhases(phase, mode), sc)' = R
      BY <1>1, <2>1 DEF RunsIn
    <2>3. IF R = {} THEN i = 0
          ELSE i \in R /\ \A j \in R : IF log'[j].phase = log'[i].phase
                                      THEN \/ log'[j].at < log'[i].at
                                           \/ log'[j].at = log'[i].at /\ j <= i
                                      ELSE \E a, b \in 1 .. NumPhases :
                                              /\ a < b /\ PhasesInOrder[a] = log'[j].phase
                                              /\ PhasesInOrder[b] = log'[i].phase
      BY <1>4, <2>2, SameOrder DEF IsLatest, NotAfter, NotLater, Before
    <2> HIDE DEF i, R
    <2>4. IsLatest(i, R)
      BY <2>1, <2>3, SameLast DEF Before
    <2>5. IsLatest(latest[sc], R) /\ R \in SUBSET DOMAIN log /\ log \in Seq(Execution)
      BY <1>2 DEF R, RunsIn, ReportsInv, ReportsTypeOK
    <2> QED BY <2>4, <2>5, LatestUnique DEF i
  <1>6. after = latest
    <2> HIDE DEF after, latest
    <2> QED BY <1>2, <1>3, <1>5 DEF LatestSet
  <1>7. ASSUME NEW sc \in Scenarios
        PROVE  Status(LatestRuns(phase, mode), sc)' = Status(LatestRuns(phase, mode), sc)
    <2>1. latest[sc] = 0 \/ latest[sc] \in RunsIn(F, sc)
      BY <1>2 DEF IsLatest
    <2>2. latest[sc] = 0 \/ log'[latest[sc]] = log[latest[sc]]
      BY <2>1, SameRuns
    <2> QED BY <1>6, <2>2 DEF Status
  <1> QED BY <1>6, <1>7

\* The numbers of a view are those of before.
LEMMA SameStatus ==
  ASSUME NEW phase, NEW mode, UNCHANGED spec, UNCHANGED tags,
         \A sc \in Scenarios : Status(LatestRuns(phase, mode), sc)' = Status(LatestRuns(phase, mode), sc)
  PROVE  /\ Summary(phase, mode)' = Summary(phase, mode)
         /\ VerifiedReqs(phase, mode)' = VerifiedReqs(phase, mode)
  <1>1. UNCHANGED <<phaseOf, active, traces, tags>>
    BY DEF spec
  <1>2. /\ \A s : PhasesOf(s)' = PhasesOf(s)
        /\ \A s : ScenariosOf(s)' = ScenariosOf(s) /\ ScenariosOf(s) \subseteq Scenarios
    BY <1>1 DEF PhasesOf, ScenariosOf, TagsOf, StoredScenarios
  <1>3. /\ ReqsIn(phase, mode)' = ReqsIn(phase, mode)
        /\ StoriesIn(phase, mode)' = StoriesIn(phase, mode)
    BY <1>1, <1>2 DEF ReqsIn, StoriesIn, InScope, StoryInScope, Phases
  <1>4. /\ \A s : Tested(s)' = Tested(s)
        /\ \A s : Covered(s, LatestRuns(phase, mode))' = Covered(s, LatestRuns(phase, mode))
    BY <1>2 DEF Tested, Covered
  <1>5. \A r : /\ StoriesOf(r, phase, mode)' = StoriesOf(r, phase, mode)
               /\ HasStory(r, phase, mode)' = HasStory(r, phase, mode)
    BY <1>1, <1>3 DEF StoriesOf, HasStory
  <1>6. VerifiedReqs(phase, mode)' = VerifiedReqs(phase, mode)
    BY <1>3, <1>4, <1>5 DEF VerifiedReqs
  <1>7. LinkedIn(phase, mode)' = LinkedIn(phase, mode)
    BY <1>2, <1>3 DEF LinkedIn
  <1>8. {x \in LinkedIn(phase, mode) : Status(LatestRuns(phase, mode), x[2]) = "pass"}'
          = {x \in LinkedIn(phase, mode) : Status(LatestRuns(phase, mode), x[2]) = "pass"}
    <2>1. \A x \in LinkedIn(phase, mode) : x[2] \in Scenarios
      BY DEF LinkedIn
    <2> QED BY <1>7, <2>1
  <1>9. /\ (ReqsIn(phase, mode) \cap active)' = ReqsIn(phase, mode) \cap active
        /\ {r \in ReqsIn(phase, mode) \cap active : HasStory(r, phase, mode)}'
             = {r \in ReqsIn(phase, mode) \cap active : HasStory(r, phase, mode)}
        /\ (VerifiedReqs(phase, mode) \cap active)' = VerifiedReqs(phase, mode) \cap active
    BY <1>1, <1>3, <1>5, <1>6
  <1>10. /\ {s \in StoriesIn(phase, mode) : Tested(s)}' = {s \in StoriesIn(phase, mode) : Tested(s)}
         /\ {s \in StoriesIn(phase, mode) : Covered(s, LatestRuns(phase, mode))}'
              = {s \in StoriesIn(phase, mode) : Covered(s, LatestRuns(phase, mode))}
    BY <1>3, <1>4
  <1>11. Summary(phase, mode)' = Summary(phase, mode)
    BY <1>3, <1>7, <1>8, <1>9, <1>10 DEF Summary
  <1> QED BY <1>6, <1>11

LEMMA OnlyRunsAreLogged ==
  ASSUME ReportsInv, [Next]_vars, Len(log') > Len(log)
  PROVE  \E runs, p : Appends(runs, p) /\ p = log'[Len(log')].phase
  <1>1. Len(log) \in Nat
    BY DEF ReportsInv, ReportsTypeOK
  <1>2. log' # log
    BY <1>1
  <1>3. Record \/ Execute \/ ImportReport
    BY <1>2 DEF Next, vars, CreateScenario, UpdateScenario, DeleteScenario, Edited, BeginImport,
                ConsiderNext, TakeOver, EndImport, LinkBranch, LinkMergeRequest,
                UpdateMergeRequest, Refer
  <1>4. PICK runs, p : Appends(runs, p)
    BY <1>3, Appended
  <1>5. /\ log \in Seq(Execution) /\ runs \in Seq(Execution) /\ log' = log \o runs
        /\ \A i \in 1 .. Len(runs) : runs[i].phase = p
    BY <1>4 DEF Appends, Logged, ReportsInv, ReportsTypeOK
  <1>6. Len(runs) \in Nat /\ Len(log') = Len(log) + Len(runs) /\ Len(runs) > 0
    BY <1>1, <1>5
  <1>7. log'[Len(log')] = runs[Len(runs)] /\ Len(runs) \in 1 .. Len(runs)
    BY <1>1, <1>5, <1>6
  <1> QED BY <1>4, <1>5, <1>7

(***************************************************************************)
(* For any phases, log and clocks: recording runs in a phase leaves the    *)
(* report of an earlier phase, the strict one of another and what is       *)
(* verified of the delivered scope before it as they were (feedingPhases). *)
(***************************************************************************)
THEOREM RunsAlwaysStayInPhase == Spec => RunsStayInPhase
  <1> DEFINE Aside(p, v) == IF v[2] = "strict" \/ p \notin Phases THEN p # v[1]
                            ELSE PhaseOrder[v[1]] < PhaseOrder[p]
             Same(v) == /\ coverage_trend(v[2])'[v[1]] = coverage_trend(v[2])[v[1]]
                        /\ v[2] = "cumulative" => DeliveredCoverage(v[1])' = DeliveredCoverage(v[1])
  <1>1. ASSUME ReportsInv, ReportsInv', [Next]_vars, Len(log') > Len(log),
               NEW v \in Phases \X Modes, Aside(log'[Len(log')].phase, v)
        PROVE  Same(v)
    <2>1. PICK runs, p : Appends(runs, p) /\ p = log'[Len(log')].phase
      BY <1>1, OnlyRunsAreLogged
    <2>2. v[1] \in Phases /\ (v[2] = "strict" \/ v[2] = "cumulative") /\ v[1] # None
      BY PhaseOrderAssumption DEF Modes
    <2>3. p \notin FeedingPhases(v[1], v[2])
      <3>1. Aside(p, v)
        BY <1>1, <2>1
      <3>2. \A q \in Phases : PhaseOrder[q] \in Int
        BY PhaseOrderAssumption
      <3> QED BY <2>2, <3>1, <3>2 DEF FeedingPhases
    <2>4. \A sc \in Scenarios : Status(LatestRuns(v[1], v[2]), sc)' = Status(LatestRuns(v[1], v[2]), sc)
      BY <1>1, <2>1, <2>3, SameLatest
    <2>5. UNCHANGED spec /\ UNCHANGED tags
      BY <2>1 DEF Appends, Logged
    <2>6. /\ Summary(v[1], v[2])' = Summary(v[1], v[2])
          /\ VerifiedReqs(v[1], v[2])' = VerifiedReqs(v[1], v[2])
      BY <2>4, <2>5, SameStatus
    <2>7. coverage_trend(v[2])'[v[1]] = coverage_trend(v[2])[v[1]]
      <3>1. v[1] # Absent
        BY <2>2, AbsentAssumption
      <3>2. coverage_trend(v[2])[v[1]] = Summary(v[1], v[2])
        BY <2>2, <3>1 DEF coverage_trend, coverage_report, resolvePhaseId
      <3>3. coverage_trend(v[2])'[v[1]] = Summary(v[1], v[2])'
        BY <2>2, <3>1 DEF coverage_trend, coverage_report, resolvePhaseId, Phases
      <3> QED BY <2>6, <3>2, <3>3
    <2>8. ASSUME v[2] = "cumulative"  PROVE DeliveredCoverage(v[1])' = DeliveredCoverage(v[1])
      <3>1. VerifiedReqs(v[1], "cumulative")' = VerifiedReqs(v[1], "cumulative")
        BY <2>6, <2>8
      <3>2. phaseOf' = phaseOf
        BY <2>5 DEF spec
      <3>3. {r \in ReqsIn(v[1], "cumulative") : InDeliveredPhase(r)}'
              = {r \in ReqsIn(v[1], "cumulative") : InDeliveredPhase(r)}
        BY <3>2 DEF ReqsIn, InDeliveredPhase, InScope, Phases
      <3> QED BY <3>1, <3>3 DEF DeliveredCoverage
    <2> QED BY <2>7, <2>8
  <1>2. ReportsInv /\ ReportsInv' /\ [Next]_vars =>
          [Len(log') > Len(log) =>
             LET p == log'[Len(log')].phase
             IN  \A v \in Phases \X Modes :
                    (IF v[2] = "strict" \/ p \notin Phases THEN p # v[1]
                     ELSE PhaseOrder[v[1]] < PhaseOrder[p])
                    => /\ coverage_trend(v[2])'[v[1]] = coverage_trend(v[2])[v[1]]
                       /\ v[2] = "cumulative" => DeliveredCoverage(v[1])' = DeliveredCoverage(v[1])]_vars
    BY <1>1
  <1> QED BY <1>2, ReportsInitInv, ReportsStepInv, PTL DEF Spec, RunsStayInPhase

-----------------------------------------------------------------------------
(***************************************************************************)
(* Screens again: the recursive expansion of embedded screens.             *)
(***************************************************************************)
Inductive(P, S) == \A T \in SUBSET S : (\A x \in T : T \ {x} \in P) => T \in P

LEMMA SubsetInduction ==
  ASSUME NEW S, IsFiniteSet(S), NEW P, Inductive(P, S)
  PROVE  SUBSET S \subseteq P
  <1> DEFINE Good == {n \in Nat : \A T \in SUBSET S : Cardinality(T) = n => T \in P}
  <1>1. 0 \in Good
    <2>1. \A T \in SUBSET S : Cardinality(T) = 0 => T = {}
      BY FS_Subset, FS_EmptySet
    <2> QED BY <2>1 DEF Inductive
  <1>2. ASSUME NEW n \in Good  PROVE n + 1 \in Good
    <2>1. ASSUME NEW T \in SUBSET S, Cardinality(T) = n + 1  PROVE T \in P
      <3>1. ASSUME NEW x \in T  PROVE T \ {x} \in P
        <4>1. OneLess(T \ {x}, T)
          BY SmallerSet
        <4>2. T \ {x} \in SUBSET S /\ Cardinality(T \ {x}) = n
          BY <2>1, <4>1 DEF OneLess
        <4> QED BY <4>2
      <3> QED BY <3>1 DEF Inductive
    <2> QED BY <2>1
  <1>3. Good = Nat
    <2>1. Good \subseteq Nat
      OBVIOUS
    <2> HIDE DEF Good
    <2> QED BY <1>1, <1>2, <2>1, AllNaturals
  <1>4. \A T \in SUBSET S : Cardinality(T) \in Nat
    BY FS_Subset, FS_CardinalityType
  <1> QED BY <1>3, <1>4

\* Which element FoldSet takes out.
Picked(T) == CHOOSE x \in T : TRUE
AnyOf(S) == [T \in SUBSET S |-> Picked(T)]

LEMMA AnyShrinks == \A S : Shrinks(S, AnyOf(S)) /\ \A T \in SUBSET S : AnyOf(S)[T] = Picked(T)
  <1>1. \A T : T # {} => Picked(T) \in T
    BY DEF Picked
  <1> QED BY <1>1 DEF AnyOf, Shrinks

\* All solutions of a fold agree.
Solves(g, S, A, base, pick, step) ==
    /\ g[{}] = base
    /\ \A T \in SUBSET S : T # {} /\ g[T \ {pick[T]}] \in A => g[T] = step[pick[T]][g[T \ {pick[T]}]]

LEMMA FoldUnique ==
  ASSUME NEW S, IsFiniteSet(S), NEW A, NEW base \in A, NEW pick, Shrinks(S, pick), NEW step,
         NEW f \in [SUBSET S -> A], Unrolled(f, SUBSET S, base, pick, step),
         NEW g, Solves(g, S, A, base, pick, step)
  PROVE  g[S] = f[S]
  <1> DEFINE P == {T \in SUBSET S : g[T] = f[T]}
  <1>1. ASSUME NEW T \in SUBSET S, \A x \in T : T \ {x} \in P  PROVE T \in P
    <2>1. CASE T = {}
      BY <2>1 DEF Unrolled, Solves
    <2>2. CASE T # {}
      <3>1. T \ {pick[T]} \in P
        BY <1>1, <2>2 DEF Shrinks
      <3> QED BY <2>2, <3>1 DEF Unrolled, Solves
    <2> QED BY <2>1, <2>2
  <1>2. S \in P
    <2> HIDE DEF P
    <2>1. Inductive(P, S)
      BY <1>1 DEF Inductive
    <2>2. SUBSET S \subseteq P
      BY <2>1, SubsetInduction
    <2> QED BY <2>2
  <1> QED BY <1>2

Visit(W, used, a) == IF used \in Stored THEN W[<<used, a>>] ELSE a
VisitAll(W, base, uses) == FoldSet(LAMBDA used, a : IF used \in Stored THEN W[<<used, a>>] ELSE a, base, uses)
WalkOn(W, s, acc) == IF s \in acc.seen THEN acc ELSE VisitAll(W, Entered(s, acc), screen[s].uses)

LEMMA UnrolledSolves ==
  ASSUME NEW S, NEW A, NEW base, NEW pick, NEW step, NEW f, Unrolled(f, SUBSET S, base, pick, step)
  PROVE  Solves(f, S, A, base, pick, step)
  BY DEF Unrolled, Solves

LEMMA VisitsFold ==
  ASSUME NEW uses, IsFiniteSet(uses), NEW A, NEW base \in A, NEW W,
         NEW step \in [uses -> [A -> A]],
         \A x \in uses : \A a \in A : step[x][a] = Visit(W, x, a),
         NEW f \in [SUBSET uses -> A], Unrolled(f, SUBSET uses, base, AnyOf(uses), step)
  PROVE  VisitAll(W, base, uses) = f[uses]
  <1> DEFINE Steps(h) == h = [T \in SUBSET uses |->
                IF T = {} THEN base ELSE Visit(W, Picked(T), h[T \ {Picked(T)}])]
             g == CHOOSE h : Steps(h)
  <1>1. VisitAll(W, base, uses) = g[uses]
    BY DEF VisitAll, FoldSet, MapThenFoldSet, Visit, Picked
  <1>0. Solves(f, uses, A, base, AnyOf(uses), step)
    BY UnrolledSolves
  <1>2. Shrinks(uses, AnyOf(uses)) /\ \A T \in SUBSET uses : AnyOf(uses)[T] = Picked(T)
    BY AnyShrinks
  <1>3. \A T \in SUBSET uses : T # {} => /\ Picked(T) \in uses /\ T \ {Picked(T)} \in SUBSET uses
                                         /\ f[T \ {Picked(T)}] \in A
    BY <1>2 DEF Shrinks
  <1>4. Steps(f)
    <2>1. ASSUME NEW T \in SUBSET uses, T # {}
          PROVE  f[T] = Visit(W, Picked(T), f[T \ {Picked(T)}])
      <3>1. f[T] = step[AnyOf(uses)[T]][f[T \ {AnyOf(uses)[T]}]]
        <4>1. f[T \ {AnyOf(uses)[T]}] \in A
          BY <1>2, <1>3, <2>1
        <4> QED BY <1>0, <2>1, <4>1 DEF Solves
      <3>2. AnyOf(uses)[T] = Picked(T)
        BY <1>2
      <3>3. f[T] = step[Picked(T)][f[T \ {Picked(T)}]]
        BY <3>1, <3>2
      <3> QED BY <1>3, <2>1, <3>3
    <2>2. f[{}] = base
      BY <1>0 DEF Solves
    <2>3. f = [T \in SUBSET uses |-> f[T]]
      OBVIOUS
    <2>4. [T \in SUBSET uses |-> f[T]]
            = [T \in SUBSET uses |-> IF T = {} THEN base ELSE Visit(W, Picked(T), f[T \ {Picked(T)}])]
      BY <2>1, <2>2
    <2> QED BY <2>3, <2>4
  <1>5. Steps(g)
    <2> HIDE DEF Steps
    <2> QED BY <1>4
  <1> HIDE DEF g
  <1>6. g[{}] = base
    BY <1>5
  <1>7. ASSUME NEW T \in SUBSET uses, T # {}, g[T \ {AnyOf(uses)[T]}] \in A
        PROVE  g[T] = step[AnyOf(uses)[T]][g[T \ {AnyOf(uses)[T]}]]
    <2>1. g[T] = Visit(W, Picked(T), g[T \ {Picked(T)}])
      BY <1>5, <1>7
    <2>2. AnyOf(uses)[T] = Picked(T) /\ Picked(T) \in uses
      BY <1>2, <1>3, <1>7
    <2> QED BY <1>7, <2>1, <2>2
  <1>8. Solves(g, uses, A, base, AnyOf(uses), step)
    BY <1>6, <1>7 DEF Solves
  <1>9. g[uses] = f[uses]
    BY <1>2, <1>8, FoldUnique
  <1> QED BY <1>1, <1>9

\* What W makes of a walk that comes after one that has seen b's screens.
Above(b) == {c \in Accs : b.seen \subseteq c.seen}
Keeps(W, D) == \A x \in Stored : \A b \in D : W[<<x, b>>] \in Above(b)
Agree(V, W, D) == \A x \in Stored : \A b \in D : V[<<x, b>>] = W[<<x, b>>]
Visited(W, e, uses, f) ==
    /\ f \in [SUBSET uses -> Above(e)]
    /\ f[{}] = e
    /\ \A T \in SUBSET uses : T # {} => Picked(T) \in T /\ f[T] = Visit(W, Picked(T), f[T \ {Picked(T)}])

LEMMA VisitsWithin ==
  ASSUME NEW uses, IsFiniteSet(uses), NEW e \in Accs, NEW W, Keeps(W, Above(e))
  PROVE  \E f : /\ Visited(W, e, uses, f)
               /\ \A V : Agree(V, W, Above(e)) => VisitAll(V, e, uses) = f[uses]
  <1> DEFINE A == Above(e)
             step == [x \in uses |-> [b \in A |-> Visit(W, x, b)]]
  <1>1. e \in A
    BY DEF Above
  <1>2. \A x \in uses : \A b \in A : Visit(W, x, b) \in A
    BY DEF Above, Keeps, Visit
  <1>3. step \in [uses -> [A -> A]]
    BY <1>2
  <1>4. \A x \in uses : \A b \in A : step[x][b] = Visit(W, x, b)
    OBVIOUS
  <1>5. Shrinks(uses, AnyOf(uses)) /\ \A T \in SUBSET uses : AnyOf(uses)[T] = Picked(T)
    BY AnyShrinks
  <1> HIDE DEF A, step
  <1>6. PICK f \in [SUBSET uses -> A] : Unrolled(f, SUBSET uses, e, AnyOf(uses), step)
    BY <1>1, <1>3, <1>5, FoldExists
  <1>7. Solves(f, uses, A, e, AnyOf(uses), step)
    BY <1>6, UnrolledSolves
  <1>8. ASSUME NEW T \in SUBSET uses, T # {}
        PROVE  Picked(T) \in T /\ f[T] = Visit(W, Picked(T), f[T \ {Picked(T)}])
    <2>1. AnyOf(uses)[T] = Picked(T) /\ Picked(T) \in T
      BY <1>5, <1>8 DEF Shrinks
    <2>2. f[T \ {Picked(T)}] \in A /\ Picked(T) \in uses
      BY <2>1
    <2>3. f[T] = step[Picked(T)][f[T \ {Picked(T)}]]
      BY <1>7, <1>8, <2>1, <2>2 DEF Solves
    <2> QED BY <1>4, <2>1, <2>2, <2>3
  <1>9. Visited(W, e, uses, f)
    BY <1>7, <1>8 DEF Visited, Solves, A
  <1>10. ASSUME NEW V, Agree(V, W, A)  PROVE VisitAll(V, e, uses) = f[uses]
    <2>1. \A x \in uses : \A b \in A : step[x][b] = Visit(V, x, b)
      BY <1>4, <1>10 DEF Agree, Visit
    <2> QED BY <1>1, <1>3, <1>6, <2>1, VisitsFold
  <1> QED BY <1>9, <1>10 DEF A


\* Walks that have all but n screens behind them.
Below(n) == {a \in Accs : Cardinality(Screens \ a.seen) <= n}
UsesTyped == \A s \in Stored : screen[s].uses \subseteq Screens
Accounts(W, D) == \A s \in Stored : \A a \in D : W[<<s, a>>] = WalkOn(W, s, a) /\ W[<<s, a>>] \in Above(a)

LEMMA UsesFinite == UsesTyped => \A s \in Stored : IsFiniteSet(screen[s].uses)
  BY ScreensAssumption, FS_Subset DEF UsesTyped

LEMMA EnteredIs ==
  ASSUME NEW s \in Screens, NEW a \in Accs
  PROVE  /\ Entered(s, a) \in Accs /\ Entered(s, a).seen = a.seen \cup {s}
         /\ Entered(s, a).list = [u \in Screens |-> IF u = s THEN a.list[u] + 1 ELSE a.list[u]]
  BY DEF Entered, Accs

LEMMA EnteringDescends ==
  ASSUME NEW n \in Nat, NEW a \in Below(n + 1), NEW s \in Stored, s \notin a.seen
  PROVE  Above(Entered(s, a)) \subseteq Below(n) /\ Above(Entered(s, a)) \subseteq Above(a)
  <1>1. a \in Accs /\ s \in Screens
    BY DEF Below, Stored
  <1>2. ASSUME NEW b \in Above(Entered(s, a))  PROVE b \in Below(n) /\ b \in Above(a)
    <2>1. b \in Accs /\ a.seen \subseteq b.seen /\ s \in b.seen
      BY <1>1, <1>2, EnteredIs DEF Above
    <2> DEFINE A == Screens \ a.seen
               B == Screens \ b.seen
    <2>2. IsFiniteSet(A) /\ s \in A /\ B \subseteq A \ {s}
      BY <1>1, <2>1, ScreensAssumption, FS_Subset
    <2>3. OneLess(A \ {s}, A)
      BY <2>2, SmallerSet
    <2>4. Cardinality(B) <= Cardinality(A \ {s}) /\ Cardinality(B) \in Nat
      BY <2>2, <2>3, FS_Subset, FS_CardinalityType DEF OneLess
    <2>5. Cardinality(A) <= n + 1
      BY DEF Below
    <2>6. Cardinality(B) <= n
      <3> HIDE DEF A, B
      <3>1. Cardinality(A) \in Nat /\ Cardinality(A \ {s}) = Cardinality(A) - 1
        BY <2>3 DEF OneLess
      <3> QED BY <2>4, <2>5, <3>1
    <2> QED BY <2>1, <2>6 DEF Below, Above
  <1> QED BY <1>2

\* One step of a walk that has one more screen ahead of it than W knows of.
LEMMA WalkFurther ==
  ASSUME UsesTyped, NEW n \in Nat, NEW W, Keeps(W, Below(n)), NEW s \in Stored, NEW a \in Below(n + 1)
  PROVE  /\ WalkOn(W, s, a) \in Above(a)
         /\ \A V : Agree(V, W, Below(n)) => WalkOn(V, s, a) = WalkOn(W, s, a)
  <1>1. a \in Accs /\ s \in Screens
    BY DEF Below, Stored
  <1>2. CASE s \in a.seen
    BY <1>1, <1>2 DEF WalkOn, Above
  <1>3. CASE s \notin a.seen
    <2> DEFINE e == Entered(s, a)
    <2>1. e \in Accs
      BY <1>1, EnteredIs
    <2>2. Above(e) \subseteq Below(n) /\ Above(e) \subseteq Above(a)
      BY <1>3, EnteringDescends
    <2>3. Keeps(W, Above(e)) /\ \A V : Agree(V, W, Below(n)) => Agree(V, W, Above(e))
      BY <2>2 DEF Keeps, Agree
    <2>4. IsFiniteSet(screen[s].uses)
      BY UsesFinite
    <2> HIDE DEF e
    <2>5. PICK f : /\ Visited(W, e, screen[s].uses, f)
                   /\ \A V : Agree(V, W, Above(e)) => VisitAll(V, e, screen[s].uses) = f[screen[s].uses]
      BY <2>1, <2>3, <2>4, VisitsWithin
    <2>6. f[screen[s].uses] \in Above(a)
      BY <2>2, <2>5 DEF Visited
    <2>7. Agree(W, W, Above(e))
      BY DEF Agree
    <2>8. \A V : WalkOn(V, s, a) = VisitAll(V, e, screen[s].uses)
      BY <1>3 DEF WalkOn, e
    <2>9. WalkOn(W, s, a) = f[screen[s].uses]
      BY <2>5, <2>7, <2>8
    <2> QED BY <2>3, <2>5, <2>6, <2>8, <2>9
  <1> QED BY <1>2, <1>3

WalksBelow(n) == \E W : Accounts(W, Below(n)) /\ W = [p \in Stored \X Below(n) |-> WalkOn(W, p[1], p[2])]

LEMMA WalkExists == UsesTyped => \A n \in Nat : WalksBelow(n)
  <1> SUFFICES ASSUME UsesTyped  PROVE \A n \in Nat : WalksBelow(n)
    OBVIOUS
  <1> DEFINE Good == {n \in Nat : WalksBelow(n)}
  <1>1. 0 \in Good
    <2> DEFINE W == [p \in Stored \X Below(0) |-> p[2]]
    <2>1. ASSUME NEW a \in Below(0)  PROVE a \in Accs /\ Screens \subseteq a.seen
      <3>1. IsFiniteSet(Screens \ a.seen) /\ Cardinality(Screens \ a.seen) <= 0
        BY ScreensAssumption, FS_Subset DEF Below
      <3>2. Screens \ a.seen = {}
        BY <3>1, FS_CardinalityType, FS_EmptySet
      <3> QED BY <3>2 DEF Below
    <2>2. \A V : \A s \in Stored : \A a \in Below(0) : WalkOn(V, s, a) = a
      BY <2>1 DEF WalkOn, Stored
    <2>3. \A s \in Stored : \A a \in Below(0) : W[<<s, a>>] = a
      OBVIOUS
    <2>4. Accounts(W, Below(0))
      <3> HIDE DEF W
      <3> QED BY <2>1, <2>2, <2>3 DEF Accounts, Above
    <2>5. W = [p \in Stored \X Below(0) |-> WalkOn(W, p[1], p[2])]
      BY <2>2
    <2> HIDE DEF W
    <2>6. WalksBelow(0)
      BY <2>4, <2>5 DEF WalksBelow
    <2> QED BY <2>6
  <1>2. ASSUME NEW n \in Good  PROVE n + 1 \in Good
    <2>1. n \in Nat /\ n + 1 \in Nat
      OBVIOUS
    <2>2. PICK W : Accounts(W, Below(n))
      BY DEF WalksBelow
    <2>3. Keeps(W, Below(n))
      BY <2>2 DEF Accounts, Keeps
    <2> DEFINE V == [p \in Stored \X Below(n + 1) |-> WalkOn(W, p[1], p[2])]
    <2>4. \A s \in Stored : \A a \in Below(n + 1) : V[<<s, a>>] = WalkOn(W, s, a)
      OBVIOUS
    <2>5. Below(n) \subseteq Below(n + 1)
      <3>1. \A a \in Accs : Cardinality(Screens \ a.seen) \in Nat
        BY ScreensAssumption, FS_Subset, FS_CardinalityType
      <3> QED BY <2>1, <3>1 DEF Below
    <2> HIDE DEF V
    <2>6. Agree(V, W, Below(n))
      BY <2>2, <2>4, <2>5 DEF Agree, Accounts
    <2>7. \A s \in Stored : \A a \in Below(n + 1) : WalkOn(V, s, a) = WalkOn(W, s, a)
                                                   /\ WalkOn(W, s, a) \in Above(a)
      BY <2>1, <2>3, <2>6, WalkFurther
    <2>8. Accounts(V, Below(n + 1))
      BY <2>4, <2>7 DEF Accounts
    <2>9. V = [p \in Stored \X Below(n + 1) |-> WalkOn(V, p[1], p[2])]
      BY <2>7 DEF V
    <2>10. WalksBelow(n + 1)
      BY <2>8, <2>9 DEF WalksBelow
    <2> QED BY <2>1, <2>10
  <1>3. Good = Nat
    <2>1. Good \subseteq Nat
      OBVIOUS
    <2> HIDE DEF Good
    <2> QED BY <1>1, <1>2, <2>1, AllNaturals
  <1> QED BY <1>3

LEMMA WalkIs == UsesTyped => \A s \in Stored : \A a \in Accs : Walk[<<s, a>>] = WalkOn(Walk, s, a)
  <1> SUFFICES ASSUME UsesTyped  PROVE \A s \in Stored : \A a \in Accs : Walk[<<s, a>>] = WalkOn(Walk, s, a)
    OBVIOUS
  <1> DEFINE Is(W) == W = [p \in Stored \X Accs |-> WalkOn(W, p[1], p[2])]
  <1>1. Cardinality(Screens) \in Nat /\ Below(Cardinality(Screens)) = Accs
    BY ScreensAssumption, FS_Subset, FS_CardinalityType DEF Below
  <1>2. \E W : Is(W)
    <2>1. WalksBelow(Cardinality(Screens))
      BY <1>1, WalkExists
    <2> QED BY <1>1, <2>1 DEF WalksBelow
  <1>3. Walk = CHOOSE W : Is(W)
    BY DEF Walk, WalkOn, VisitAll, Entered
  <1>4. Is(Walk)
    <2> HIDE DEF Is
    <2> QED BY <1>2, <1>3
  <1> QED BY <1>4

(***************************************************************************)
(* What a walk finds.  Between a and b the screens of T were entered, and  *)
(* with them what they embed, each once, and nothing that a closed set     *)
(* around T does not hold.                                                 *)
(***************************************************************************)
Closed(C) == C \in SUBSET Stored /\ \A x \in C : screen[x].uses \cap Stored \subseteq C

Found(a, b, T) ==
    /\ b \in Above(a)
    /\ T \cap Stored \subseteq b.seen
    /\ b.seen \ a.seen \subseteq Stored
    /\ \A u \in Screens : b.list[u] = IF u \in b.seen \ a.seen THEN a.list[u] + 1 ELSE a.list[u]
    /\ \A x \in b.seen \ a.seen : screen[x].uses \cap Stored \subseteq b.seen
    /\ \A C : Closed(C) /\ T \cap Stored \subseteq C => b.seen \ a.seen \subseteq C

LEMMA FoundNothing == \A a \in Accs : \A T : T \cap Stored \subseteq a.seen => Found(a, a, T)
  BY DEF Found, Above, Accs

LEMMA FoundMore ==
  ASSUME NEW a \in Accs, NEW b, NEW c, NEW T, NEW x, Found(a, b, T), Found(b, c, {x})
  PROVE  Found(a, c, T \cup {x})
  <1>1. /\ b \in Accs /\ c \in Accs /\ a.seen \subseteq b.seen /\ b.seen \subseteq c.seen
        /\ a.list \in [Screens -> Nat]
    BY DEF Found, Above, Accs
  <1>2. c.seen \ a.seen = (c.seen \ b.seen) \cup (b.seen \ a.seen)
    BY <1>1
  <1>3. c \in Above(a)
    BY <1>1 DEF Above
  <1>4. (T \cup {x}) \cap Stored \subseteq c.seen
    BY <1>1 DEF Found
  <1>5. c.seen \ a.seen \subseteq Stored
    BY <1>2 DEF Found
  <1>6. ASSUME NEW u \in Screens
        PROVE  c.list[u] = IF u \in c.seen \ a.seen THEN a.list[u] + 1 ELSE a.list[u]
    <2>1. b.list[u] = IF u \in b.seen \ a.seen THEN a.list[u] + 1 ELSE a.list[u]
      BY DEF Found
    <2>2. c.list[u] = IF u \in c.seen \ b.seen THEN b.list[u] + 1 ELSE b.list[u]
      BY DEF Found
    <2> QED BY <1>1, <2>1, <2>2
  <1>7. \A y \in c.seen \ a.seen : screen[y].uses \cap Stored \subseteq c.seen
    BY <1>1, <1>2 DEF Found
  <1>8. ASSUME NEW C, Closed(C), (T \cup {x}) \cap Stored \subseteq C  PROVE c.seen \ a.seen \subseteq C
    <2>1. b.seen \ a.seen \subseteq C /\ c.seen \ b.seen \subseteq C
      BY <1>8 DEF Found
    <2> QED BY <1>2, <2>1
  <1> QED BY <1>3, <1>4, <1>5, <1>6, <1>7, <1>8 DEF Found

LEMMA FoundByEntering ==
  ASSUME NEW s \in Stored, NEW a \in Accs, s \notin a.seen, NEW b,
         Found(Entered(s, a), b, screen[s].uses)
  PROVE  Found(a, b, {s})
  <1> DEFINE e == Entered(s, a)
  <1>1. /\ e \in Accs /\ e.seen = a.seen \cup {s} /\ s \in Screens
        /\ e.list = [u \in Screens |-> IF u = s THEN a.list[u] + 1 ELSE a.list[u]]
    BY EnteredIs DEF Stored
  <1>2. Found(e, b, screen[s].uses)
    OBVIOUS
  <1> HIDE DEF e
  <1>3. b \in Accs /\ e.seen \subseteq b.seen /\ screen[s].uses \cap Stored \subseteq b.seen
    BY <1>2 DEF Found, Above
  <1>4. b.seen \ a.seen = {s} \cup (b.seen \ e.seen)
    BY <1>1, <1>3
  <1>5. b \in Above(a)
    BY <1>1, <1>3 DEF Above
  <1>6. {s} \cap Stored \subseteq b.seen
    BY <1>1, <1>3
  <1>7. b.seen \ a.seen \subseteq Stored
    BY <1>2, <1>4 DEF Found
  <1>8. ASSUME NEW u \in Screens
        PROVE  b.list[u] = IF u \in b.seen \ a.seen THEN a.list[u] + 1 ELSE a.list[u]
    <2>1. b.list[u] = IF u \in b.seen \ e.seen THEN e.list[u] + 1 ELSE e.list[u]
      BY <1>2 DEF Found
    <2>2. e.list[u] = IF u = s THEN a.list[u] + 1 ELSE a.list[u]
      BY <1>1
    <2> QED BY <1>1, <1>4, <2>1, <2>2
  <1>9. \A x \in b.seen \ a.seen : screen[x].uses \cap Stored \subseteq b.seen
    BY <1>2, <1>3, <1>4 DEF Found
  <1>10. ASSUME NEW C, Closed(C), {s} \cap Stored \subseteq C  PROVE b.seen \ a.seen \subseteq C
    <2>1. s \in C /\ screen[s].uses \cap Stored \subseteq C
      BY <1>10 DEF Closed
    <2>2. b.seen \ e.seen \subseteq C
      BY <1>2, <1>10, <2>1 DEF Found
    <2> QED BY <1>4, <2>1, <2>2
  <1> QED BY <1>5, <1>6, <1>7, <1>8, <1>9, <1>10 DEF Found

\* The visits of a screen's embedded screens, if each of them finds what it should.
FindsBelow(W, D) == \A x \in Stored : \A b \in D : Found(b, W[<<x, b>>], {x})

LEMMA VisitsFind ==
  ASSUME NEW uses, IsFiniteSet(uses), NEW e \in Accs, NEW W, FindsBelow(W, Above(e)),
         NEW f, Visited(W, e, uses, f)
  PROVE  Found(e, f[uses], uses)
  <1> DEFINE P == {T \in SUBSET uses : Found(e, f[T], T)}
  <1>1. ASSUME NEW T \in SUBSET uses, \A x \in T : T \ {x} \in P  PROVE T \in P
    <2>1. CASE T = {}
      BY <2>1, FoundNothing DEF Visited
    <2>2. CASE T # {}
      <3>1. PICK x \in T : x = Picked(T)
        BY <2>2 DEF Visited
      <3>2. f[T] = Visit(W, x, f[T \ {x}]) /\ f[T \ {x}] \in Above(e)
        BY <2>2, <3>1 DEF Visited
      <3>3. Found(e, f[T \ {x}], T \ {x})
        BY <1>1
      <3>4. Found(f[T \ {x}], f[T], {x})
        <4>1. CASE x \in Stored
          BY <3>2, <4>1 DEF Visit, FindsBelow
        <4>2. CASE x \notin Stored
          <5>1. f[T] = f[T \ {x}] /\ f[T] \in Accs /\ {x} \cap Stored = {}
            BY <3>2, <4>2 DEF Visit, Above
          <5> QED BY <5>1, FoundNothing
        <4> QED BY <4>1, <4>2
      <3>5. Found(e, f[T], (T \ {x}) \cup {x})
        BY <3>3, <3>4, FoundMore
      <3>6. (T \ {x}) \cup {x} = T
        OBVIOUS
      <3> QED BY <3>5, <3>6
    <2> QED BY <2>1, <2>2
  <1>2. uses \in P
    <2> HIDE DEF P
    <2>1. Inductive(P, uses)
      BY <1>1 DEF Inductive
    <2>2. SUBSET uses \subseteq P
      BY <2>1, SubsetInduction
    <2> QED BY <2>2
  <1> QED BY <1>2

LEMMA WalkFinds == UsesTyped => FindsBelow(Walk, Accs)
  <1> SUFFICES ASSUME UsesTyped  PROVE FindsBelow(Walk, Accs)
    OBVIOUS
  <1> DEFINE Good == {n \in Nat : FindsBelow(Walk, Below(n))}
  <1>1. ASSUME NEW s \in Stored, NEW a \in Accs, s \in a.seen  PROVE Found(a, Walk[<<s, a>>], {s})
    BY <1>1, WalkIs, FoundNothing DEF WalkOn
  <1>2. ASSUME NEW n \in Nat, NEW s \in Stored, NEW a \in Below(n), s \notin a.seen,
               FindsBelow(Walk, Above(Entered(s, a)))
        PROVE  Found(a, Walk[<<s, a>>], {s})
    <2> DEFINE e == Entered(s, a)
    <2>1. a \in Accs /\ e \in Accs
      BY EnteredIs DEF Below, Stored
    <2>2. Walk[<<s, a>>] = VisitAll(Walk, e, screen[s].uses)
      BY <1>2, <2>1, WalkIs DEF WalkOn
    <2>3. IsFiniteSet(screen[s].uses)
      BY UsesFinite
    <2>4. Keeps(Walk, Above(e))
      BY <1>2 DEF FindsBelow, Keeps, Found
    <2> HIDE DEF e
    <2>5. PICK f : /\ Visited(Walk, e, screen[s].uses, f)
                   /\ \A V : Agree(V, Walk, Above(e)) => VisitAll(V, e, screen[s].uses) = f[screen[s].uses]
      BY <2>1, <2>3, <2>4, VisitsWithin
    <2>6. Agree(Walk, Walk, Above(e))
      BY DEF Agree
    <2>7. Found(e, f[screen[s].uses], screen[s].uses)
      BY <1>2, <2>1, <2>3, <2>5, VisitsFind DEF e
    <2>8. Found(e, Walk[<<s, a>>], screen[s].uses)
      BY <2>2, <2>5, <2>6, <2>7
    <2> QED BY <1>2, <2>1, <2>8, FoundByEntering DEF e
  <1>3. 0 \in Good
    <2>1. ASSUME NEW a \in Below(0)  PROVE a \in Accs /\ Screens \subseteq a.seen
      <3>1. IsFiniteSet(Screens \ a.seen) /\ Cardinality(Screens \ a.seen) <= 0
        BY ScreensAssumption, FS_Subset DEF Below
      <3>2. Screens \ a.seen = {}
        BY <3>1, FS_CardinalityType, FS_EmptySet
      <3> QED BY <3>2 DEF Below
    <2> QED BY <1>1, <2>1 DEF FindsBelow, Stored
  <1>4. ASSUME NEW n \in Good  PROVE n + 1 \in Good
    <2>1. n \in Nat /\ n + 1 \in Nat /\ FindsBelow(Walk, Below(n))
      OBVIOUS
    <2>2. ASSUME NEW s \in Stored, NEW a \in Below(n + 1)  PROVE Found(a, Walk[<<s, a>>], {s})
      <3>1. CASE s \in a.seen
        BY <1>1, <3>1 DEF Below
      <3>2. CASE s \notin a.seen
        <4>1. Above(Entered(s, a)) \subseteq Below(n)
          BY <2>1, <3>2, EnteringDescends
        <4>2. FindsBelow(Walk, Above(Entered(s, a)))
          BY <2>1, <4>1 DEF FindsBelow
        <4> QED BY <1>2, <2>1, <3>2, <4>2
      <3> QED BY <3>1, <3>2
    <2> QED BY <2>1, <2>2 DEF FindsBelow
  <1>5. Good = Nat
    <2>1. Good \subseteq Nat
      OBVIOUS
    <2> HIDE DEF Good
    <2> QED BY <1>3, <1>4, <2>1, AllNaturals
  <1>6. Cardinality(Screens) \in Nat /\ Below(Cardinality(Screens)) = Accs
    BY ScreensAssumption, FS_Subset, FS_CardinalityType DEF Below
  <1> QED BY <1>5, <1>6

(***************************************************************************)
(* A screen resolves to the elements of every screen it reaches, each      *)
(* once, however the screens embed each other (resolveElements).           *)
(***************************************************************************)
THEOREM ResolvedAlwaysOnce == ScreensSpec => []ResolvedOnce
  <1>1. ScreensInv => ResolvedOnce
    <2> SUFFICES ASSUME ScreensInv  PROVE ResolvedOnce
      OBVIOUS
    <2>1. UsesTyped
      BY DEF ScreensInv, ScreensTypeOK, UsesTyped, Stored, ScreenRow
    <2>2. Nothing \in Accs /\ Nothing.seen = {} /\ \A u \in Screens : Nothing.list[u] = 0
      BY DEF Nothing, Accs
    <2>3. ASSUME NEW s \in Stored
          PROVE  \A u \in Screens : Resolved(s)[u] = IF u \in Reaches(s) THEN 1 ELSE 0
      <3> DEFINE b == Walk[<<s, Nothing>>]
      <3>1. Found(Nothing, b, {s})
        BY <2>1, <2>2, WalkFinds DEF FindsBelow
      <3>2. Resolved(s) = b.list
        BY DEF Resolved
      <3> HIDE DEF b
      <3>3. b.seen \subseteq Stored /\ s \in b.seen
        BY <2>2, <3>1 DEF Found
      <3>4. b.seen \in SUBSET Stored /\ s \in b.seen /\ \A x \in b.seen : screen[x].uses \cap Stored \subseteq b.seen
        BY <2>2, <3>1, <3>3 DEF Found
      <3>5. Reaches(s) \subseteq b.seen
        BY <3>4 DEF Reaches
      <3>6. b.seen \subseteq Reaches(s)
        <4>1. ASSUME NEW closed \in SUBSET Stored, s \in closed,
                     \A x \in closed : screen[x].uses \cap Stored \subseteq closed
              PROVE  b.seen \subseteq closed
          <5>1. Closed(closed)
            BY <4>1 DEF Closed
          <5> QED BY <2>2, <3>1, <4>1, <5>1 DEF Found
        <4> QED BY <3>3, <4>1 DEF Reaches
      <3>7. \A u \in Screens : b.list[u] = IF u \in b.seen THEN 1 ELSE 0
        BY <2>2, <3>1 DEF Found
      <3> QED BY <3>2, <3>5, <3>6, <3>7
    <2>4. ASSUME NEW s \in Stored, NEW u \in get_screen(s).usedBy
          PROVE  get_screen(u).elements[s] = 1
      <3>1. u \in Stored /\ s \in screen[u].uses /\ s \in Screens
        BY DEF get_screen, Stored
      <3>2. s \in Reaches(u)
        BY <3>1 DEF Reaches
      <3>3. Resolved(u)[s] = 1
        BY <2>3, <3>1, <3>2
      <3> QED BY <3>3 DEF get_screen
    <2> QED BY <2>3, <2>4 DEF ResolvedOnce
  <1> QED BY <1>1, ScreensInitInv, ScreensStepInv, PTL DEF ScreensSpec

-----------------------------------------------------------------------------
(***************************************************************************)
(* The surfaces.  Counting by class counts everything once.                *)
(***************************************************************************)
LEMMA CountedOnce ==
  ASSUME NEW P, IsFiniteSet(P), NEW X, IsFiniteSet(X), NEW class \in [X -> P], NEW w,
         w = [p \in P |-> Cardinality({x \in X : class[x] = p})]
  PROVE  SumFunction(w) = Cardinality(X)
  <1> DEFINE Of(T) == {x \in X : class[x] \in T}
             Steps(h) == h = [T \in SUBSET P |-> IF T = {} THEN 0 ELSE w[Picked(T)] + h[T \ {Picked(T)}]]
             g == CHOOSE h : Steps(h)
             step == [p \in P |-> [n \in Nat |-> w[p] + n]]
             f == [T \in SUBSET P |-> Cardinality(Of(T))]
  <1>1. DOMAIN w = P
    OBVIOUS
  <1>2. SumFunction(w) = g[DOMAIN w]
    BY DEF SumFunction, SumFunctionOnSet, FoldFunctionOnSet, MapThenFoldSet, Picked
  <1>3. \A T \in SUBSET P : IsFiniteSet(Of(T)) /\ Cardinality(Of(T)) \in Nat
    BY FS_Subset, FS_CardinalityType
  <1>4. ASSUME NEW T \in SUBSET P, T # {}
        PROVE  Cardinality(Of(T)) = w[Picked(T)] + Cardinality(Of(T \ {Picked(T)}))
    <2>1. PICK p \in T : p = Picked(T)
      BY <1>4 DEF Picked
    <2> DEFINE A == Of(T \ {p})
               B == {x \in X : class[x] = p}
    <2>2. IsFiniteSet(A) /\ IsFiniteSet(B) /\ A \cap B = {} /\ A \cup B = Of(T)
      BY FS_Subset
    <2>3. w[p] = Cardinality(B)
      OBVIOUS
    <2>4. Of(T) = A \cup B /\ A = Of(T \ {Picked(T)})
      BY <2>1, <2>2
    <2> HIDE DEF A, B, Of
    <2>5. /\ Cardinality(A) \in Nat /\ Cardinality(B) \in Nat
          /\ Cardinality(A \cup B) = Cardinality(A) + Cardinality(B)
      BY <2>2, TwoParts
    <2> QED BY <2>1, <2>3, <2>4, <2>5
  <1>5. Steps(f)
    <2>1. f[{}] = 0
      <3>1. Of({}) = {} /\ Cardinality({}) = 0
        BY FS_EmptySet
      <3> QED BY <3>1
    <2>2. ASSUME NEW T \in SUBSET P, T # {}  PROVE f[T] = w[Picked(T)] + f[T \ {Picked(T)}]
      <3> HIDE DEF Of
      <3> QED BY <1>4, <2>2
    <2>3. f = [T \in SUBSET P |-> f[T]]
      OBVIOUS
    <2> HIDE DEF f
    <2> QED BY <2>1, <2>2, <2>3
  <1>6. Steps(g)
    <2> HIDE DEF Steps
    <2> QED BY <1>5
  <1> HIDE DEF g, Of
  <1> DEFINE Right == {T \in SUBSET P : g[T] = Cardinality(Of(T))}
  <1>7. ASSUME NEW T \in SUBSET P, \A x \in T : T \ {x} \in Right  PROVE T \in Right
    <2>1. CASE T = {}
      <3>1. Of({}) = {} /\ Cardinality({}) = 0
        BY FS_EmptySet DEF Of
      <3> QED BY <1>6, <2>1, <3>1
    <2>2. CASE T # {}
      <3>1. Picked(T) \in T
        BY <2>2 DEF Picked
      <3>2. g[T \ {Picked(T)}] = Cardinality(Of(T \ {Picked(T)}))
        BY <1>7, <3>1
      <3>3. g[T] = w[Picked(T)] + g[T \ {Picked(T)}]
        BY <1>6, <2>2
      <3> QED BY <1>4, <2>2, <3>2, <3>3
    <2> QED BY <2>1, <2>2
  <1>8. P \in Right
    <2> HIDE DEF Right
    <2>1. Inductive(Right, P)
      BY <1>7 DEF Inductive
    <2>2. SUBSET P \subseteq Right
      BY <2>1, SubsetInduction
    <2> QED BY <2>2
  <1>9. Of(P) = X
    BY DEF Of
  <1> QED BY <1>1, <1>2, <1>8, <1>9

LEMMA EarliestTyped == \A S : Earliest(S) \in {None} \cup Phases
  <1> SUFFICES ASSUME NEW S, S \cap Phases # {}  PROVE Earliest(S) \in Phases
    BY DEF Earliest
  <1> DEFINE R == {r \in Phases \X Phases : PhaseOrder[r[2]] <= PhaseOrder[r[1]]}
  <1>1. \A x, y \in Phases : <<x, y>> \in R <=> PhaseOrder[y] <= PhaseOrder[x]
    OBVIOUS
  <1>2. \A x \in Phases : PhaseOrder[x] \in Int
    BY PhaseOrderAssumption
  <1> HIDE DEF R
  <1>3. Ordered(Phases, R)
    BY <1>1, <1>2 DEF Ordered
  <1>4. HasLast(S \cap Phases, R)
    BY <1>3, FiniteAssumption, LastExists
  <1>5. \E p \in S \cap Phases : \A q \in S \cap Phases : PhaseOrder[p] <= PhaseOrder[q]
    BY <1>1, <1>4 DEF HasLast
  <1> QED BY <1>5 DEF Earliest

LEMMA TableCounts ==
  Counted("stories") = Cardinality(Stories) /\ Counted("scenarios") = Cardinality(StoredScenarios)
  <1> DEFINE P == {None} \cup Phases
  <1>1. IsFiniteSet(P)
    BY FiniteAssumption, FS_AddElement, FS_Singleton, FS_Union
  <1>2. IsFiniteSet(Stories) /\ IsFiniteSet(StoredScenarios)
    BY FiniteAssumption, FS_Subset DEF StoredScenarios
  <1> DEFINE ofStory == [s \in Stories |-> Earliest(PhasesOf(s))]
             ofScenario == [sc \in StoredScenarios |-> Earliest(TagPhases(sc))]
             w1 == [p \in P |-> Cardinality({s \in Stories : ofStory[s] = p})]
             w2 == [p \in P |-> Cardinality({sc \in StoredScenarios : ofScenario[sc] = p})]
  <1>3. ofStory \in [Stories -> P] /\ ofScenario \in [StoredScenarios -> P]
    BY EarliestTyped
  <1>4. Counted("stories") = SumFunction(w1)
    <2>1. \A p \in P : {s \in Stories : ofStory[s] = p} = {s \in Stories : Earliest(PhasesOf(s)) = p}
      OBVIOUS
    <2>2. \A p \in P : CountsByPhase[p]["stories"] = Cardinality({s \in Stories : Earliest(PhasesOf(s)) = p})
      BY DEF CountsByPhase
    <2> HIDE DEF ofStory
    <2>3. [p \in P |-> CountsByPhase[p]["stories"]] = w1
      BY <2>1, <2>2
    <2> QED BY <2>3 DEF Counted
  <1>5. Counted("scenarios") = SumFunction(w2)
    <2>1. \A p \in P : {sc \in StoredScenarios : ofScenario[sc] = p}
                         = {sc \in StoredScenarios : Earliest(TagPhases(sc)) = p}
      OBVIOUS
    <2>2. \A p \in P : CountsByPhase[p]["scenarios"]
                         = Cardinality({sc \in StoredScenarios : Earliest(TagPhases(sc)) = p})
      BY DEF CountsByPhase
    <2> HIDE DEF ofScenario
    <2>3. [p \in P |-> CountsByPhase[p]["scenarios"]] = w2
      BY <2>1, <2>2
    <2> QED BY <2>3 DEF Counted
  <1> HIDE DEF ofStory, ofScenario, P
  <1>6. SumFunction(w1) = Cardinality(Stories)
    <2>1. w1 = [p \in P |-> Cardinality({s \in Stories : ofStory[s] = p})]
      OBVIOUS
    <2> HIDE DEF w1
    <2> QED BY <1>1, <1>2, <1>3, <2>1, CountedOnce
  <1>7. SumFunction(w2) = Cardinality(StoredScenarios)
    <2>1. w2 = [p \in P |-> Cardinality({sc \in StoredScenarios : ofScenario[sc] = p})]
      OBVIOUS
    <2> HIDE DEF w2
    <2> QED BY <1>1, <1>2, <1>3, <2>1, CountedOnce
  <1> QED BY <1>4, <1>5, <1>6, <1>7

\* The merge request of a story (mergedMrByStory).
Naming(s) == {m \in Mrs : refs[m] # None /\ s \in refs[m].stories}
UpInNumber(N) == {r \in N \X N : r[1] <= r[2]}
MergedIn(m) == refs[m].state = "merged"

LEMMA MrsEnumerated ==
  ASSUME NEW N \in SUBSET Mrs
  PROVE  /\ IsFiniteSet(N) /\ Cardinality(N) \in Nat
         /\ Enumerates(InOrder(N, <=), Cardinality(N), N, UpInNumber(N))
  <1>1. IsFiniteSet(N) /\ Cardinality(N) \in Nat /\ N \subseteq Nat
    BY MrsAssumption, FS_Subset, FS_CardinalityType
  <1>2. \A x, y \in N : <<x, y>> \in UpInNumber(N) <=> x <= y
    BY DEF UpInNumber
  <1>3. Ordered(N, UpInNumber(N))
    BY <1>1, <1>2 DEF Ordered
  <1>4. PICK f : Enumerates(f, Cardinality(N), N, UpInNumber(N))
    BY <1>1, <1>3, EnumerationExists
  <1>5. /\ f \in [1 .. Cardinality(N) -> N] /\ IsInjective(f)
        /\ \A i, j \in 1 .. Cardinality(N) : i <= j => f[i] <= f[j]
    BY <1>2, <1>4 DEF Enumerates
  <1> DEFINE q == InOrder(N, <=)
  <1>6. /\ q \in [1 .. Cardinality(N) -> N] /\ IsInjective(q)
        /\ \A i, j \in 1 .. Cardinality(N) : i <= j => q[i] <= q[j]
    BY <1>5 DEF InOrder
  <1> HIDE DEF q
  <1>7. \A i, j \in 1 .. Cardinality(N) : i <= j => <<q[i], q[j]>> \in UpInNumber(N)
    BY <1>2, <1>6
  <1>8. Enumerates(q, Cardinality(N), N, UpInNumber(N))
    BY <1>6, <1>7 DEF Enumerates
  <1> QED BY <1>1, <1>8 DEF q

NumMrs(s) == Cardinality(Naming(s))
MrOrder(s) == InOrder(Naming(s), <=)
MrSteps(s) == [k \in 1 .. NumMrs(s) |-> [m \in Nat |-> KeepMerged(m, MrOrder(s)[k])]]

LEMMA MrsTyped ==
  ASSUME NEW s
  PROVE  /\ NumMrs(s) \in Nat /\ DOMAIN MrOrder(s) = 1 .. NumMrs(s)
         /\ \A k \in 1 .. NumMrs(s) : MrOrder(s)[k] \in Naming(s) /\ MrOrder(s)[k] \in Nat
         /\ \A m \in Naming(s) : \E k \in 1 .. NumMrs(s) : MrOrder(s)[k] = m
  <1>1. Naming(s) \in SUBSET Mrs
    BY DEF Naming
  <1>2. /\ IsFiniteSet(Naming(s)) /\ NumMrs(s) \in Nat
        /\ Enumerates(MrOrder(s), Cardinality(Naming(s)), Naming(s), UpInNumber(Naming(s)))
    BY <1>1, MrsEnumerated DEF NumMrs, MrOrder
  <1>3. \A m \in Naming(s) : \E k \in 1 .. NumMrs(s) : MrOrder(s)[k] = m
    BY <1>2, Bijective DEF NumMrs
  <1>4. MrOrder(s) \in [1 .. NumMrs(s) -> Naming(s)]
    BY <1>2 DEF Enumerates, NumMrs
  <1> QED BY <1>1, <1>2, <1>3, <1>4, MrsAssumption

LEMMA MrsInTurn ==
  ASSUME NEW s
  PROVE  \E c : Chain(c, NumMrs(s), Nat, 0, MrSteps(s)) /\ MrOf(s) = c[NumMrs(s)]
  <1> DEFINE n == NumMrs(s)
             q == MrOrder(s)
             step == MrSteps(s)
             Steps(f) == f = [T \in SUBSET DOMAIN q |->
                IF T = {} THEN 0 ELSE LET x == Max(T) IN KeepMerged(f[T \ {x}], q[x])]
             g == CHOOSE g : Steps(g)
  <1>1. n \in Nat /\ DOMAIN q = 1 .. n /\ \A k \in 1 .. n : q[k] \in Nat
    BY MrsTyped
  <1>2. step \in [1 .. n -> [Nat -> Nat]]
    BY <1>1 DEF KeepMerged, MrSteps
  <1>3. \A k \in 1 .. n : \A m \in Nat : step[k][m] = KeepMerged(m, q[k])
    BY DEF MrSteps
  <1>4. MrOf(s) = g[DOMAIN q]
    BY DEF MrOf, FoldLeft, MapThenFoldSet, Naming, MrOrder
  <1> HIDE DEF step, n, q
  <1>5. PICK f : FoldsDown(f, n, Nat, 0, step)
    BY <1>1, <1>2, DownFold
  <1>6. Steps(f)
    <2>1. ASSUME NEW T \in SUBSET (1 .. n), T # {}
          PROVE  f[T] = KeepMerged(f[T \ {Max(T)}], q[Max(T)])
      <3>1. Max(T) \in 1 .. n /\ T \ {Max(T)} \in SUBSET (1 .. n)
        BY <1>1, <2>1, MaxOfSome
      <3>2. f[T \ {Max(T)}] \in Nat
        BY <1>5, <3>1 DEF FoldsDown
      <3>3. f[T] = step[Max(T)][f[T \ {Max(T)}]]
        BY <1>5, <2>1 DEF FoldsDown
      <3> QED BY <1>3, <3>1, <3>2, <3>3
    <2>2. f[{}] = 0 /\ f = [T \in SUBSET (1 .. n) |-> f[T]]
      BY <1>5 DEF FoldsDown
    <2> QED BY <1>1, <2>1, <2>2
  <1>7. Steps(g)
    <2> HIDE DEF Steps
    <2> QED BY <1>6
  <1> HIDE DEF g
  <1>8. g[{}] = 0
    BY <1>7
  <1>9. ASSUME NEW k \in 1 .. n, g[1 .. (k - 1)] \in Nat
        PROVE  g[1 .. k] = step[k][g[1 .. (k - 1)]]
    <2>1. Max(1 .. k) = k /\ 1 .. k # {} /\ (1 .. k) \ {k} = 1 .. (k - 1)
      <3>1. k \in Nat /\ k > 0
        BY <1>1
      <3> QED BY <3>1, LastOfFirst
    <2>2. 1 .. k \in SUBSET DOMAIN q
      BY <1>1
    <2>3. g[1 .. k] = KeepMerged(g[(1 .. k) \ {Max(1 .. k)}], q[Max(1 .. k)])
      BY <1>7, <2>1, <2>2
    <2> QED BY <1>3, <1>9, <2>1, <2>3
  <1> DEFINE c == [k \in 0 .. n |-> g[1 .. k]]
  <1>10. Chain(c, n, Nat, 0, step)
    <2> DEFINE A == Nat
               base == 0
    <2>1. base \in A /\ step \in [1 .. n -> [A -> A]] /\ g[{}] = base
      BY <1>2, <1>8
    <2>2. \A k \in 1 .. n : g[1 .. (k - 1)] \in A => g[1 .. k] = step[k][g[1 .. (k - 1)]]
      BY <1>9
    <2> HIDE DEF A, base
    <2>3. Chain(c, n, A, base, step)
      BY <1>1, <2>1, <2>2, ChainOf
    <2> QED BY <2>3 DEF A, base
  <1>11. MrOf(s) = c[n]
    <2>1. n \in 0 .. n
      BY <1>1
    <2>2. c[n] = g[1 .. n]
      BY <2>1
    <2> QED BY <1>1, <1>4, <2>2
  <1> HIDE DEF c
  <1> QED BY <1>10, <1>11 DEF step, n

LEMMA MrIsMerged ==
  ASSUME NEW s
  PROVE  IF Naming(s) = {} THEN MrOf(s) = 0
         ELSE MrOf(s) \in Naming(s) /\ ((\E m \in Naming(s) : MergedIn(m)) => MergedIn(MrOf(s)))
  <1> DEFINE N == Naming(s)
             n == NumMrs(s)
             q == MrOrder(s)
  <1>1. 0 \notin N
    BY MrsAssumption DEF Naming
  <1>2. /\ n \in Nat
        /\ \A k \in 1 .. n : q[k] \in N
        /\ \A m \in N : \E k \in 1 .. n : q[k] = m
    BY MrsTyped
  <1>3. PICK c : Chain(c, n, Nat, 0, MrSteps(s)) /\ MrOf(s) = c[n]
    BY MrsInTurn
  <1>4. \A k \in 1 .. n : \A m \in Nat : MrSteps(s)[k][m] = KeepMerged(m, q[k])
    BY DEF MrSteps
  <1> HIDE DEF N, n, q
  <1> DEFINE Upto(k) == {q[i] : i \in 1 .. k}
             Right(k) == IF k = 0 THEN c[k] = 0
                         ELSE c[k] \in Upto(k) /\ ((\E m \in Upto(k) : MergedIn(m)) => MergedIn(c[k]))
             Good == {k \in 0 .. n : Right(k)}
  <1>7. 0 \in Good
    BY <1>2, <1>3 DEF Chain
  <1>8. ASSUME NEW k \in 1 .. n, k - 1 \in Good  PROVE k \in Good
    <2>1. c[k] = KeepMerged(c[k - 1], q[k])
      <3>1. k - 1 \in 0 .. n
        BY <1>8
      <3>2. c[k - 1] \in Nat /\ c[k] = MrSteps(s)[k][c[k - 1]]
        BY <1>3, <3>1 DEF Chain
      <3> QED BY <1>4, <3>2
    <2>2. Upto(k) = Upto(k - 1) \cup {q[k]}
      <3>1. 1 .. k = (1 .. (k - 1)) \cup {k}
        BY <1>2
      <3> QED BY <3>1
    <2>3. k # 0 /\ k \in 0 .. n /\ Right(k - 1)
      BY <1>2, <1>8
    <2>4. \A m \in Upto(k - 1) : m # 0
      <3>1. \A i \in 1 .. (k - 1) : i \in 1 .. n
        BY <1>2
      <3> QED BY <1>1, <1>2, <3>1
    <2>5. c[k - 1] = 0 => k - 1 = 0 /\ Upto(k - 1) = {}
      <3>1. k - 1 # 0 => c[k - 1] \in Upto(k - 1)
        BY <2>3
      <3>2. k - 1 = 0 => 1 .. (k - 1) = {}
        BY <1>2
      <3> QED BY <2>4, <3>1, <3>2
    <2>6. c[k - 1] # 0 => c[k - 1] \in Upto(k - 1)
                          /\ ((\E m \in Upto(k - 1) : MergedIn(m)) => MergedIn(c[k - 1]))
      BY <2>3
    <2> HIDE DEF Upto
    <2>7. Right(k)
      BY <2>1, <2>2, <2>3, <2>5, <2>6 DEF KeepMerged, MergedIn
    <2> QED BY <2>3, <2>7
  <1>9. Right(n)
    <2> HIDE DEF Right
    <2>1. 0 .. n \subseteq Good
      <3> HIDE DEF Good
      <3> QED BY <1>2, <1>7, <1>8, UpTo
    <2> QED BY <1>2, <2>1
  <1>10. Upto(n) = N
    BY <1>2
  <1>11. n = 0 <=> N = {}
    <2>1. n = 0 => 1 .. n = {}
      BY <1>2
    <2>2. n # 0 => n \in 1 .. n
      BY <1>2
    <2> QED BY <1>2, <2>1, <2>2
  <1> HIDE DEF Upto
  <1> QED BY <1>3, <1>9, <1>10, <1>11 DEF N

LEMMA ScopeOfAll == \A mode : ReqsIn(None, mode) = Reqs /\ StoriesIn(None, mode) = Stories
  BY DEF ReqsIn, StoriesIn, InScope, StoryInScope

LEMMA ListsAgree ==
  ASSUME ReportsInv, NEW p \in Phases
  PROVE  /\ list_requirements(p) = ReqsIn(p, "strict")
         /\ list_user_stories(p) = StoriesIn(p, "strict")
         /\ CountsByPhase[p].requirements = Cardinality(list_requirements(p))
  <1>1. p # None /\ None \notin Phases /\ \A q \in Phases : PhaseOrder[q] <= PhaseOrder[q]
    BY PhaseOrderAssumption
  <1>2. list_requirements(p) = ReqsIn(p, "strict")
    BY <1>1 DEF list_requirements, ReqsIn, InScope
  <1>3. list_user_stories(p) = StoriesIn(p, "strict")
    BY <1>1 DEF list_user_stories, StoriesIn, StoryInScope, InScope, PhasesOf
  <1>4. ASSUME NEW x  PROVE Earliest({x}) = p <=> x = p
    <2>1. CASE x \in Phases
      <3>1. {x} \cap Phases = {x}
        BY <2>1
      <3>2. \E y \in {x} \cap Phases : \A q \in {x} \cap Phases : PhaseOrder[y] <= PhaseOrder[q]
        BY <1>1, <2>1, <3>1
      <3>3. Earliest({x}) \in {x} \cap Phases
        BY <3>1, <3>2 DEF Earliest
      <3> QED BY <3>1, <3>3
    <2>2. CASE x \notin Phases
      <3>1. {x} \cap Phases = {}
        BY <2>2
      <3> QED BY <1>1, <2>2, <3>1 DEF Earliest
    <2> QED BY <2>1, <2>2
  <1>5. {r \in Reqs : Earliest({phaseOf[r]}) = p} = list_requirements(p)
    BY <1>4 DEF list_requirements
  <1>6. CountsByPhase[p].requirements = Cardinality({r \in Reqs : Earliest({phaseOf[r]}) = p})
    BY DEF CountsByPhase
  <1> QED BY <1>2, <1>3, <1>5, <1>6

LEMMA LinksAre ==
  /\ \A s \in Stories : list_links.linked[s] = ScenariosOf(s)
  /\ StoredScenarios # {} => \A sc \in Scenarios : TagsOf(sc) = IF sc \in StoredScenarios THEN tags[sc] ELSE {}
  <1>1. CASE StoredScenarios = {}
    BY <1>1 DEF list_links, LinksOnDisk, ScenariosOf, TagsOf, OnDisk
  <1>2. CASE StoredScenarios # {}
    <2>1. \A s \in Stories : list_links.linked[s] = {sc \in StoredScenarios : s \in tags[sc]}
      BY <1>2 DEF list_links
    <2>2. \A sc \in Scenarios : TagsOf(sc) = IF sc \in StoredScenarios THEN tags[sc] ELSE {}
      BY <1>2 DEF TagsOf
    <2>3. StoredScenarios \subseteq Scenarios
      BY DEF StoredScenarios
    <2> QED BY <2>1, <2>2, <2>3 DEF ScenariosOf
  <1> QED BY <1>1, <1>2

LEMMA MrsAgree ==
  ASSUME ReportsInv, NEW s \in Stories
  PROVE  /\ MrOf(s) # 0 <=> list_vcs_refs(Mrs, RefStates, s) # {}
         /\ MrOf(s) \in list_vcs_refs(Mrs, {"merged"}, s) <=> list_vcs_refs(Mrs, {"merged"}, s) # {}
  <1>1. list_vcs_refs(Mrs, RefStates, s) = Naming(s)
    BY DEF ReportsInv, ReportsTypeOK, list_vcs_refs, Naming
  <1>2. list_vcs_refs(Mrs, {"merged"}, s) = {m \in Naming(s) : MergedIn(m)}
    BY DEF list_vcs_refs, Naming, MergedIn
  <1>3. 0 \notin Naming(s)
    BY MrsAssumption DEF Naming
  <1> QED BY <1>1, <1>2, <1>3, MrIsMerged

StoredAgree ==
    StoredScenarios # {} =>
        /\ \A r \in Reqs :
              /\ list_scenarios({}, {r}, None, "strict") = {sc \in StoredScenarios : r \in requirementIds(sc)}
              /\ list_scenarios({}, {r}, None, "strict") = UNION {list_links.linked[s] : s \in linkedStories(r)}
        /\ \A s \in Stories : api_story_scenarios(s) = list_scenarios({s}, {}, None, "strict")
        /\ \A s \in Stories : api_story_scenarios(s) = list_links.linked[s]
        /\ TraceScenarios(None, "cumulative") = scenariosLinkedDistinct
        /\ TraceSummary(None, "cumulative").passing =
              Cardinality(scenariosPassingDistinct \cap scenariosLinkedDistinct)

LEMMA StoredSurfaces == ReportsInv => StoredAgree
  <1> SUFFICES ASSUME ReportsInv, StoredScenarios # {}  PROVE StoredAgree
    BY DEF StoredAgree
  <1>1. \A sc \in Scenarios : TagsOf(sc) = IF sc \in StoredScenarios THEN tags[sc] ELSE {}
    BY LinksAre
  <1>2. /\ StoredScenarios \subseteq Scenarios
        /\ \A sc \in StoredScenarios : tags[sc] \in TagSet
    BY DEF StoredScenarios, ReportsInv, ReportsTypeOK
  <1>3. \A s \in Stories : list_links.linked[s] = {sc \in StoredScenarios : s \in tags[sc]}
    BY LinksAre, <1>1, <1>2 DEF ScenariosOf
  <1>4. Filtered(None, "strict") = StoredScenarios
    BY DEF Filtered
  <1>5. ASSUME NEW r \in Reqs
        PROVE  /\ list_scenarios({}, {r}, None, "strict") = {sc \in StoredScenarios : r \in requirementIds(sc)}
               /\ list_scenarios({}, {r}, None, "strict") = UNION {list_links.linked[s] : s \in linkedStories(r)}
    <2>1. list_scenarios({}, {r}, None, "strict")
            = {sc \in StoredScenarios : \E s \in tags[sc] \cap Stories : r \in traces[s]}
      BY <1>4 DEF list_scenarios
    <2>2. \A sc : r \in requirementIds(sc) <=> \E s \in tags[sc] \cap Stories : r \in traces[s]
      BY DEF requirementIds
    <2>3. linkedStories(r) = {s \in Stories : r \in traces[s]}
      BY DEF linkedStories
    <2>4. UNION {list_links.linked[s] : s \in linkedStories(r)}
            = {sc \in StoredScenarios : \E s \in tags[sc] \cap Stories : r \in traces[s]}
      <3> DEFINE linked == list_links.linked
                 U == UNION {linked[s] : s \in linkedStories(r)}
      <3>1. \A sc : sc \in U <=> \E s \in linkedStories(r) : sc \in linked[s]
        OBVIOUS
      <3>2. \A sc : sc \in U <=> \E s \in Stories : r \in traces[s] /\ sc \in StoredScenarios /\ s \in tags[sc]
        <4> HIDE DEF linked, U
        <4>1. \A s \in Stories : \A sc : sc \in linked[s] <=> sc \in StoredScenarios /\ s \in tags[sc]
          BY <1>3 DEF linked
        <4> QED BY <2>3, <3>1, <4>1
      <3> HIDE DEF U
      <3>3. U = {sc \in StoredScenarios : \E s \in tags[sc] \cap Stories : r \in traces[s]}
        BY <3>2
      <3> QED BY <3>3 DEF U
    <2>5. {sc \in StoredScenarios : r \in requirementIds(sc)}
            = {sc \in StoredScenarios : \E s \in tags[sc] \cap Stories : r \in traces[s]}
      BY <2>2
    <2> QED BY <2>1, <2>4, <2>5
  <1>6. ASSUME NEW s \in Stories
        PROVE  /\ api_story_scenarios(s) = list_scenarios({s}, {}, None, "strict")
               /\ api_story_scenarios(s) = list_links.linked[s]
    BY <1>3, <1>4 DEF api_story_scenarios, list_scenarios
  <1>7. TraceScenarios(None, "cumulative") = scenariosLinkedDistinct
    <2>1. scenariosLinkedDistinct = {sc \in StoredScenarios : tags[sc] # {}}
      BY <1>1, <1>2 DEF scenariosLinkedDistinct
    <2>2. {d[1] : d \in Dangling} = {sc \in StoredScenarios : Lost \in tags[sc]}
      <3>1. \A d : d \in Dangling <=> d \in StoredScenarios \X {Lost} /\ d[2] \in tags[d[1]]
        BY DEF Dangling
      <3>2. \A sc \in StoredScenarios : Lost \in tags[sc] => <<sc, Lost>> \in Dangling /\ <<sc, Lost>>[1] = sc
        BY <3>1
      <3>3. \A d \in Dangling : d[1] \in StoredScenarios /\ Lost \in tags[d[1]]
        BY <3>1
      <3> QED BY <3>2, <3>3
    <2>3. \A sc : sc \in UNION {ScenariosOf(s) : s \in Stories}
                  <=> sc \in StoredScenarios /\ \E s \in Stories : s \in tags[sc]
      BY <1>1, <1>2 DEF ScenariosOf
    <2>4. TraceScenarios(None, "cumulative")
            = {d[1] : d \in Dangling} \cup UNION {ScenariosOf(s) : s \in Stories}
      BY ScopeOfAll DEF TraceScenarios
    <2> QED BY <1>2, <2>1, <2>2, <2>3, <2>4 DEF TagSet
  <1>8. TraceSummary(None, "cumulative").passing =
              Cardinality(scenariosPassingDistinct \cap scenariosLinkedDistinct)
    <2> DEFINE latest == LatestRuns(None, "cumulative")
               passing == {sc \in TraceScenarios(None, "cumulative") : TraceStatus(sc, latest) = "pass"}
    <2>1. TraceSummary(None, "cumulative").passing = Cardinality(passing)
      BY DEF TraceSummary
    <2>2. \A sc : TraceStatus(sc, latest) = "pass" <=> Status(latest, sc) = "pass"
      BY DEF TraceStatus, Status
    <2>3. scenariosLinkedDistinct \subseteq StoredScenarios
      BY <1>1 DEF scenariosLinkedDistinct
    <2>4. scenariosPassingDistinct = {sc \in StoredScenarios : Status(latest, sc) = "pass"}
      BY DEF scenariosPassingDistinct
    <2>5. passing = scenariosPassingDistinct \cap scenariosLinkedDistinct
      BY <1>7, <2>2, <2>3, <2>4
    <2> QED BY <2>1, <2>5
  <1> QED BY <1>5, <1>6, <1>7, <1>8 DEF StoredAgree

CurrentAgrees(current) ==
    LET latest == LatestAsOf(current)
        shown == [s \in Stories |-> get_user_story(s, latest).linkedScenarios]
        inScope == StoriesIn(current, "cumulative")
        report == api_coverage(current, "cumulative", None)
        gaps == find_gaps(Absent, "cumulative", current)
        traced == api_traceability(Absent, "cumulative", current)
        links == list_links.linked
    IN  /\ \A s \in Stories : DOMAIN shown[s] = links[s]
        /\ report = coverage_report(Absent, "cumulative", current)
        /\ traced.withoutScenario = Cardinality(gaps.noScenario)
        /\ traced.notCovered = Cardinality(gaps.notCovered)
        /\ report.stories = report.covered + traced.withoutScenario + traced.notCovered
        /\ api_scenarios({}, {}, current, "cumulative") \subseteq TraceScenarios(current, "cumulative")
        /\ StoredScenarios = {} => \A s \in Stories : api_story(s, latest).scenarios = shown[s]
        /\ report.covered =
              Cardinality({s \in inScope : links[s] # {} /\ \A sc \in links[s] : shown[s][sc] = "pass"})
        /\ \A sc \in TraceScenarios(current, "cumulative") :
              TraceStatus(sc, latest) \in Statuses => get_scenario(sc, latest) = TraceStatus(sc, latest)

LEMMA ThreeParts ==
  ASSUME NEW S, IsFiniteSet(S), NEW A, NEW B, NEW C,
         S = A \cup B \cup C, A \cap B = {}, A \cap C = {}, B \cap C = {}
  PROVE  Cardinality(S) = Cardinality(A) + Cardinality(B) + Cardinality(C)
  <1>1. IsFiniteSet(A) /\ IsFiniteSet(B) /\ IsFiniteSet(C)
    BY FS_Subset
  <1>2. PICK AB : AB = A \cup B
    OBVIOUS
  <1>3. IsFiniteSet(AB) /\ Cardinality(AB) = Cardinality(A) + Cardinality(B)
    BY <1>1, <1>2, TwoParts
  <1>4. AB \cap C = {} /\ S = AB \cup C
    BY <1>2
  <1>5. Cardinality(AB \cup C) = Cardinality(AB) + Cardinality(C)
    BY <1>1, <1>3, <1>4, TwoParts
  <1> QED BY <1>3, <1>4, <1>5

LEMMA CurrentSurfaces == ReportsInv => \A current \in Phases : CurrentAgrees(current)
  <1> SUFFICES ASSUME ReportsInv, NEW current \in Phases  PROVE CurrentAgrees(current)
    OBVIOUS
  <1> DEFINE latest == LatestRuns(current, "cumulative")
             inScope == StoriesIn(current, "cumulative")
             shown == [s \in Stories |-> get_user_story(s, latest).linkedScenarios]
             report == Summary(current, "cumulative")
             gaps == Gaps(current, "cumulative")
             traced == TraceSummary(current, "cumulative")
             covered == {s \in inScope : Covered(s, latest)}
             untested == {s \in inScope : ~Tested(s)}
             uncovered == {s \in inScope : Tested(s) /\ ~Covered(s, latest)}
  <1>1. /\ api_coverage(current, "cumulative", None) = report
        /\ coverage_report(Absent, "cumulative", current) = report
        /\ find_gaps(Absent, "cumulative", current) = gaps
        /\ api_traceability(Absent, "cumulative", current) = traced
        /\ LatestAsOf(current) = latest
    BY AbsentAssumption DEF api_coverage, coverage_report, find_gaps, api_traceability, LatestAsOf,
                            RoutePhase, resolvePhaseId
  <1>2. \A s \in Stories : shown[s] = [sc \in ScenariosOf(s) |-> Status(latest, sc)]
    BY DEF get_user_story
  <1>3. \A s \in Stories : list_links.linked[s] = ScenariosOf(s)
    BY LinksAre
  <1>4. \A s \in Stories : DOMAIN shown[s] = list_links.linked[s]
    BY <1>2, <1>3
  <1>5. /\ report.stories = Cardinality(inScope) /\ report.covered = Cardinality(covered)
        /\ gaps.noScenario = untested /\ gaps.notCovered = uncovered
        /\ traced.withoutScenario = Cardinality(untested) /\ traced.notCovered = Cardinality(uncovered)
    BY DEF Summary, Gaps, TraceSummary
  <1>6. inScope \subseteq Stories /\ IsFiniteSet(inScope)
    <2>1. inScope \subseteq Stories
      BY DEF StoriesIn
    <2> QED BY <2>1, FiniteAssumption, FS_Subset
  <1>7. Cardinality(inScope) = Cardinality(covered) + Cardinality(untested) + Cardinality(uncovered)
    <2>1. inScope = covered \cup untested \cup uncovered
      OBVIOUS
    <2>2. covered \cap untested = {} /\ covered \cap uncovered = {} /\ untested \cap uncovered = {}
      BY DEF Covered
    <2> HIDE DEF inScope, covered, untested, uncovered
    <2> QED BY <1>6, <2>1, <2>2, ThreeParts
  <1>8. api_scenarios({}, {}, current, "cumulative") \subseteq TraceScenarios(current, "cumulative")
    <2> SUFFICES ASSUME NEW sc \in Filtered(current, "cumulative")
                 PROVE  sc \in TraceScenarios(current, "cumulative")
      BY DEF api_scenarios, list_scenarios
    <2>1. /\ sc \in StoredScenarios
          /\ \E s \in tags[sc] \cap Stories : StoryInScope(PhasesOf(s), current, "cumulative")
      BY PhaseOrderAssumption DEF Filtered
    <2>2. PICK s \in inScope : s \in tags[sc]
      BY <2>1 DEF StoriesIn
    <2>3. sc \in ScenariosOf(s)
      BY <2>1, <2>2, LinksAre DEF ScenariosOf, StoredScenarios
    <2> QED BY <2>2, <2>3 DEF TraceScenarios
  <1>9. StoredScenarios = {} => \A s \in Stories : api_story(s, latest).scenarios = shown[s]
    <2> SUFFICES ASSUME StoredScenarios = {}, NEW s \in Stories
                 PROVE  api_story(s, latest).scenarios = shown[s]
      OBVIOUS
    <2>1. {x \in OnDisk : s \in DiskTags[x]} = ScenariosOf(s)
      BY DEF ScenariosOf, TagsOf, OnDisk
    <2> QED BY <1>2, <2>1 DEF api_story
  <1>10. covered = {s \in inScope : /\ list_links.linked[s] # {}
                                    /\ \A sc \in list_links.linked[s] : shown[s][sc] = "pass"}
    <2> SUFFICES ASSUME NEW s \in inScope
                 PROVE  Covered(s, latest) <=> /\ list_links.linked[s] # {}
                                               /\ \A sc \in list_links.linked[s] : shown[s][sc] = "pass"
      OBVIOUS
    <2>1. /\ list_links.linked[s] = ScenariosOf(s)
          /\ shown[s] = [sc \in ScenariosOf(s) |-> Status(latest, sc)]
      BY <1>2, <1>3, <1>6
    <2> HIDE DEF shown, latest
    <2>2. \A sc \in ScenariosOf(s) : shown[s][sc] = Status(latest, sc)
      BY <2>1
    <2> QED BY <2>1, <2>2 DEF Covered, Tested
  <1>11. ASSUME NEW sc, TraceStatus(sc, latest) \in Statuses
         PROVE  get_scenario(sc, latest) = TraceStatus(sc, latest)
    BY <1>11 DEF TraceStatus, Statuses, get_scenario, Status
  <1>12. report.stories = report.covered + traced.withoutScenario + traced.notCovered
    BY <1>5, <1>7
  <1> HIDE DEF latest, inScope, report, gaps, traced, covered, untested, uncovered
  <1> QED BY <1>1, <1>4, <1>5, <1>8, <1>9, <1>10, <1>11, <1>12 DEF CurrentAgrees, inScope, shown

(***************************************************************************)
(* For any tables, the tools and the routes tell one story (index.ts,      *)
(* web-api.ts): what is listed, counted, linked and shown by one is what   *)
(* the others list, count, link and show.                                  *)
(***************************************************************************)
THEOREM SurfacesAlwaysAgree == Spec => []SurfacesAgree
  <1>1. ReportsInv => SurfacesAgree
    <2> SUFFICES ASSUME ReportsInv  PROVE SurfacesAgree
      OBVIOUS
    <2>1. \A r \in Reqs : linkedStories(r) = StoriesOf(r, None, "cumulative")
      BY ScopeOfAll DEF linkedStories, StoriesOf
    <2>2. api_gaps(None, "cumulative", None).noScenario = {s \in Stories : list_links.linked[s] = {}}
      <3>1. api_gaps(None, "cumulative", None) = Gaps(None, "cumulative")
        BY DEF api_gaps, RoutePhase
      <3>2. Gaps(None, "cumulative").noScenario = {s \in Stories : ScenariosOf(s) = {}}
        BY ScopeOfAll DEF Gaps, Tested
      <3> QED BY <3>1, <3>2, LinksAre
    <2>3. StoredAgree /\ \A current \in Phases : CurrentAgrees(current)
      BY StoredSurfaces, CurrentSurfaces
    <2> QED BY <2>1, <2>2, <2>3, ListsAgree, TableCounts, MrsAgree DEF SurfacesAgree, StoredAgree, CurrentAgrees
  <1> QED BY <1>1, ReportsInitInv, ReportsStepInv, PTL DEF Spec
=============================================================================

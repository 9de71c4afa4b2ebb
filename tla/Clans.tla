------------------------------- MODULE Clans --------------------------------
(***************************************************************************)
(* Clans: the REST handlers of rest/routes.py over db/crud.py, and what    *)
(* the web pages (web/routes.py and their templates) offer to do.  A clan  *)
(* is known by its name and tag, which are unique and looked up together;  *)
(* clans are never deleted.                                                *)
(***************************************************************************)
EXTENDS Accounts, FiniteSets

CONSTANTS
  Clan,     \* clans that can be founded
  NoClan    \* the clan of a persona that is in none

ASSUME ClansAssumption == NoClan \notin Clan

VARIABLES
  clans,        \* clans with a row of their own
  membership,   \* persona -> its row of clan_membership
  by            \* the token of the request that changed clans last

clanVars == <<clans, membership, by>>
vars == <<accountVars, clanVars>>

Applicant == 0
Member == 1
Leader == 7
Position == {Applicant, Member, Leader}
NotIn == [clan |-> NoClan, position |-> Applicant]
AnyPersona == 1 .. MaxPersonas

Init ==
  /\ AccountsInit
  /\ clans = {}
  /\ membership = [p \in AnyPersona |-> NotIn]
  /\ by = 0

(***************************************************************************)
(* Queries.                                                                *)
(***************************************************************************)
In(p, c) == membership[p].clan = c
HasPosition(p, c, q) == In(p, c) /\ membership[p].position = q
Leaders(c) == {p \in AnyPersona : HasPosition(p, c, Leader)}
Members(c) == {p \in AnyPersona : In(p, c) /\ membership[p].position >= Member}
IsFree(p) == membership[p].clan \notin clans

(***************************************************************************)
(* What the endpoints ask of a request with cookie t before they change    *)
(* anything.                                                               *)
(***************************************************************************)
\* The account of the cookie owns the leader.  get_clan_leader takes the
\* first row of the clan with the leader's position: by ClansAreLed there
\* is never another one.
ByLeader(t, c) == \E l \in Leaders(c) : l \in PersonasOf(CurrentUser(t))

\* Mutant: the founder may be in another clan.
MayCreateAgain(t, p, c) ==
  /\ p \in PersonasOf(CurrentUser(t))
  /\ c \notin clans

MayCreate(t, p, c) ==
  /\ p \in PersonasOf(CurrentUser(t))
  /\ c \notin clans
  /\ IsFree(p)

MayJoin(t, p, c) ==
  /\ p \in PersonasOf(CurrentUser(t))
  /\ c \in clans
  /\ membership[p] = NotIn

\* Approve and reject.
MayDecide(t, p, c) == ByLeader(t, c) /\ HasPosition(p, c, Applicant)

\* A leader has to hand over first.
MayLeave(t, p) ==
  /\ p \in PersonasOf(CurrentUser(t))
  /\ membership[p] # NotIn
  /\ membership[p].position # Leader

\* An applicant may be kicked as well as a member.
MayKick(t, p, c) ==
  /\ ByLeader(t, c)
  /\ In(p, c)
  /\ membership[p].position # Leader

MayPromote(t, p, c) == ByLeader(t, c) /\ p \in Members(c)

(***************************************************************************)
(* Handlers.  A refused request changes nothing and is not an action.      *)
(***************************************************************************)
Change(t, p, row) ==
  /\ membership' = [membership EXCEPT ![p] = row]
  /\ by' = t
  /\ UNCHANGED <<accountVars, clans>>

\* create_clan commits the clan; the membership of its leader comes after.
CreateClan(t, p, c) ==
  /\ Idle
  /\ MayCreate(t, p, c)
  /\ clans' = clans \union {c}
  /\ by' = t
  /\ request' = [kind |-> "leader", persona |-> p, clan |-> c]
  /\ UNCHANGED <<users, entitled, personas, logins, membership>>

FirstLeader ==
  /\ request.kind = "leader"
  /\ membership' = [membership EXCEPT ![request.persona] =
                      [clan |-> request.clan, position |-> Leader]]
  /\ request' = NoRequest
  /\ UNCHANGED <<users, entitled, personas, logins, clans, by>>

Join(t, p, c) ==
  /\ Idle
  /\ MayJoin(t, p, c)
  /\ Change(t, p, [clan |-> c, position |-> Applicant])

Approve(t, p, c) ==
  /\ Idle
  /\ MayDecide(t, p, c)
  /\ Change(t, p, [clan |-> c, position |-> Member])

Reject(t, p, c) ==
  /\ Idle
  /\ MayDecide(t, p, c)
  /\ Change(t, p, NotIn)

Leave(t, p) ==
  /\ Idle
  /\ MayLeave(t, p)
  /\ Change(t, p, NotIn)

Kick(t, p, c) ==
  /\ Idle
  /\ MayKick(t, p, c)
  /\ Change(t, p, NotIn)

\* Mutant: the order of the two assignments is swapped.
PromoteThenDemote(t, p, c) ==
  /\ Idle
  /\ MayPromote(t, p, c)
  /\ \E l \in Leaders(c) :
       /\ l \in PersonasOf(CurrentUser(t))
       /\ membership' = [membership EXCEPT ![p].position = Leader,
                                           ![l].position = Member]
  /\ by' = t
  /\ UNCHANGED <<accountVars, clans>>

\* The leader steps down and then the other steps up, in one commit: a
\* leader who names himself stays leader.
Promote(t, p, c) ==
  /\ Idle
  /\ MayPromote(t, p, c)
  /\ \E l \in Leaders(c) :
       /\ l \in PersonasOf(CurrentUser(t))
       /\ membership' = [membership EXCEPT ![l].position = Member,
                                           ![p].position = Leader]
  /\ by' = t
  /\ UNCHANGED <<accountVars, clans>>

ClansNext ==
  \/ FirstLeader
  \/ \E t \in DOMAIN logins, p \in DOMAIN personas :
       \/ Leave(t, p)
       \/ \E c \in Clan :
            \/ CreateClan(t, p, c) \/ Join(t, p, c)
            \/ Approve(t, p, c) \/ Reject(t, p, c)
            \/ Kick(t, p, c) \/ Promote(t, p, c)

Next ==
  \/ AccountsNext /\ UNCHANGED clanVars
  \/ ClansNext

Spec == Init /\ [][Next]_vars

(***************************************************************************)
(* What the pages offer the account they are rendered for, u or Nobody:    *)
(* the personas for which a page has a form or a button.                   *)
(***************************************************************************)
Free(u) == {p \in PersonasOf(u) : IsFree(p)}

\* GET /clans/create: who can be named as founder.  A visitor with nothing
\* to name is sent elsewhere.
CreatePage(u) == Free(u)

\* user_membership of clan_detail_page, the row its panel goes by: each
\* persona that has a row replaces what an earlier one has set, so that of
\* the account's last persona with a row is left.
Shown(u) == {p \in PersonasOf(u) :
               /\ membership[p] # NotIn
               /\ \A q \in PersonasOf(u) : q > p => membership[q] = NotIn}

\* GET /clans/{clan_id}: the panel's form to join with and its button to
\* leave, and the leader's buttons to decide on applicants and to promote
\* or kick members.  An account with a row anywhere gets no form.
Panel(u, c, leads) ==
  [join   |-> IF Shown(u) = {} THEN Free(u) ELSE {},
   leave  |-> {p \in Shown(u) : HasPosition(p, c, Member)},
   decide |-> {p \in AnyPersona : leads /\ HasPosition(p, c, Applicant)},
   rule   |-> {p \in AnyPersona : leads /\ HasPosition(p, c, Member)}]

\* Mutant: leading another clan will do.
DetailPageOfAnyLeader(u, c) ==
  Panel(u, c, \E p \in PersonasOf(u), d \in clans : HasPosition(p, d, Leader))

DetailPage(u, c) ==
  Panel(u, c, \E p \in PersonasOf(u) : HasPosition(p, c, Leader))

(***************************************************************************)
(* Properties.                                                             *)
(***************************************************************************)

\* Rows are well formed, and a clan that is being founded is still empty
\* and its founder free: nothing is served between the two commits.
PortalTypeOK ==
  /\ AccountsTypeOK
  /\ clans \subseteq Clan
  /\ membership \in [AnyPersona -> [clan : Clan \union {NoClan}, position : Position]]
  /\ by \in 0 .. Len(logins)
  /\ \A p \in AnyPersona :
       /\ In(p, NoClan) => membership[p] = NotIn
       /\ ~In(p, NoClan) => p \in DOMAIN personas /\ membership[p].clan \in clans
  /\ request \in [kind : {"none"}]
         \union [kind : {"persona", "entitlement"}, user : users]
         \union [kind : {"leader"}, persona : DOMAIN personas, clan : clans]
  /\ request.kind = "persona" => Len(personas) < MaxPersonas
  /\ request.kind = "leader" =>
       /\ membership[request.persona] = NotIn
       /\ \A p \in AnyPersona : ~In(p, request.clan)

\* A clan with members has exactly one leader, through joins, hand-overs,
\* kicks and requests that are cut off; the only clans without a leader are
\* those whose founding was cut off, and these have no members either.
ClansAreLed == \A c \in clans : Members(c) # {} => Cardinality(Leaders(c)) = 1

\* A membership changes only by a request whose cookie is neither logged
\* out nor expired and whose account owns the persona or leads the clan
\* concerned; a persona becomes a member only of a clan it applied to or
\* founded, and leads only what it founded or was handed.
OnlyOwnerOrLeader ==
  [][\A p \in AnyPersona : membership'[p] # membership[p] =>
       LET old == membership[p]
           new == membership'[p]
           owner == personas[p].user = logins[by'].user
           leads(c) == \E l \in AnyPersona :
                         /\ HasPosition(l, c, Leader)
                         /\ personas[l].user = logins[by'].user
           founds == request = [kind |-> "leader", persona |-> p, clan |-> new.clan]
       IN /\ by' \in DOMAIN logins
          /\ founds \/ (logins[by'].active /\ logins[by'].fresh)
          /\ old = NotIn => owner /\ (founds \/ new.position = Applicant)
          /\ new = NotIn => owner \/ leads(old.clan)
          /\ old # NotIn /\ new # NotIn => old.clan = new.clan /\ leads(old.clan)
    ]_vars

\* What a page offers is what the endpoints take, although both compute it
\* in their own ways: every form and button that an account is shown works
\* as long as nothing else happens, a clan is ruled from the page by exactly
\* the account whose requests its endpoints take, and an account with one
\* persona is offered everything it may do as a member or to become one.
\* (With several personas that is not so: MembersMayLeave.)
OffersAreTaken ==
  \A t \in DOMAIN logins, p \in AnyPersona :
    LET u == CurrentUser(t) IN
    /\ \A c \in Clan \ clans : p \in CreatePage(u) <=> MayCreate(t, p, c)
    /\ \A c \in clans :
         LET page == DetailPage(u, c) IN
         /\ p \in page.join => MayJoin(t, p, c)
         /\ p \in page.leave => MayLeave(t, p)
         /\ p \in page.decide <=> MayDecide(t, p, c)
         /\ p \in page.rule <=> MayKick(t, p, c) /\ MayPromote(t, p, c)
         /\ PersonasOf(u) = {p} =>
              /\ MayJoin(t, p, c) => p \in page.join
              /\ HasPosition(p, c, Member) => p \in page.leave

\* docs/ui/WEB_PORTAL.md of the panel: "Member: Can leave the clan".  Not so
\* for an account with a later persona that has applied somewhere or is in
\* another clan: the panel goes by that one.
MembersMayLeave ==
  \A t \in DOMAIN logins, c \in clans :
    LET mine == PersonasOf(CurrentUser(t))
        members == {p \in mine : HasPosition(p, c, Member)}
    IN (members # {} /\ Leaders(c) \intersect mine = {})
         => DetailPage(CurrentUser(t), c).leave # {}
=============================================================================

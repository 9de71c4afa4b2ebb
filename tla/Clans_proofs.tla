---- MODULE Clans_proofs ----
(* What holds of accounts and clans however many there are, whatever     *)
(* requests arrive and wherever they are cut off.                        *)
EXTENDS Clans, FiniteSetTheorems, SequenceTheorems, TLAPS

\* The part of PortalTypeOK that is about accounts and requests ...
RequestOK ==
  /\ request \in [kind : {"none"}]
         \union [kind : {"persona", "entitlement"}, user : users]
         \union [kind : {"leader"}, persona : DOMAIN personas, clan : clans]
  /\ request.kind = "persona" => Len(personas) < MaxPersonas

\* ... and the part that is about clans.
RowsOK ==
  /\ clans \subseteq Clan
  /\ membership \in [AnyPersona -> [clan : Clan \union {NoClan}, position : Position]]
  /\ \A p \in AnyPersona :
       /\ In(p, NoClan) => membership[p] = NotIn
       /\ ~In(p, NoClan) => p \in DOMAIN personas /\ membership[p].clan \in clans

FoundingOK ==
  request.kind = "leader" =>
    /\ membership[request.persona] = NotIn
    /\ \A p \in AnyPersona : ~In(p, request.clan)

\* l is the only leader of c.
LedBy(l, c) == \A p \in AnyPersona : HasPosition(p, c, Leader) <=> p = l

\* ClansAreLed, said without counting.
Led == \A c \in clans : Members(c) # {} => \E l \in AnyPersona : LedBy(l, c)

\* The inductive invariant.  That a clan has one leader needs the founding
\* clan to be empty when its leader arrives, which is in FoundingOK.
PortalInv ==
  /\ AccountsTypeOK /\ RequestOK /\ by \in 0 .. Len(logins)
  /\ RowsOK /\ FoundingOK /\ Led

\* An account table row of one user: the table stays well formed when
\* accounts are added.
LEMMA TablesGrow ==
  ASSUME AccountsTypeOK, users \subseteq users',
         UNCHANGED <<personas, logins>>
  PROVE  /\ personas' \in Seq([user : users', name : PersonaName])
         /\ logins' \in Seq([user : users', active : BOOLEAN, fresh : BOOLEAN])
<1>1. /\ personas \in Seq([user : users, name : PersonaName])
      /\ logins \in Seq([user : users, active : BOOLEAN, fresh : BOOLEAN])
  BY DEF AccountsTypeOK
<1>2. [user : users, name : PersonaName] \subseteq [user : users', name : PersonaName]
  OBVIOUS
<1>3. [user : users, active : BOOLEAN, fresh : BOOLEAN]
        \subseteq [user : users', active : BOOLEAN, fresh : BOOLEAN]
  OBVIOUS
<1>4. personas \in Seq([user : users', name : PersonaName])
  BY <1>1, <1>2, SeqMonotonic, Zenon
<1>5. logins \in Seq([user : users', active : BOOLEAN, fresh : BOOLEAN])
  BY <1>1, <1>3, SeqMonotonic, Zenon
<1> QED
  BY <1>4, <1>5

\* A new persona gets the next row; the others keep theirs.
LEMMA AddRowKeepsTables ==
  ASSUME AccountsTypeOK, NEW u \in users, NEW n \in PersonaName,
         Len(personas) < MaxPersonas, AddRow(u, n),
         UNCHANGED <<users, logins>>
  PROVE  /\ personas' \in Seq([user : users', name : PersonaName])
         /\ Len(personas') = Len(personas) + 1
         /\ Len(personas') <= MaxPersonas
         /\ DOMAIN personas \subseteq DOMAIN personas'
<1> DEFINE Row == [user : users, name : PersonaName]
           row == [user |-> u, name |-> n]
<1>1. personas \in Seq(Row) /\ row \in Row
  BY DEF AccountsTypeOK
<1>2. personas' = Append(personas, row)
  BY DEF AddRow
<1> HIDE DEF Row, row
<1>3. personas' \in Seq(Row) /\ Len(personas') = Len(personas) + 1
  BY <1>1, <1>2, AppendProperties
<1>4. Len(personas) \in Nat /\ DOMAIN personas = 1 .. Len(personas)
  BY <1>1, LenProperties
<1>5. DOMAIN personas' = 1 .. Len(personas')
  BY <1>3, LenProperties
<1>6. MaxPersonas \in Nat
  BY AccountsAssumption
<1>7. DOMAIN personas \subseteq DOMAIN personas' /\ Len(personas') <= MaxPersonas
  BY <1>3, <1>4, <1>5, <1>6
<1> QED
  BY <1>3, <1>7 DEF Row

\* Marking one login keeps the table of logins well formed.
LEMMA MarkKeepsLogins ==
  ASSUME AccountsTypeOK, NEW t \in DOMAIN logins,
         \/ logins' = [logins EXCEPT ![t].active = FALSE]
         \/ logins' = [logins EXCEPT ![t].fresh = FALSE],
         UNCHANGED <<users, personas, entitled>>
  PROVE  AccountsTypeOK' /\ Len(logins') = Len(logins)
<1> DEFINE Row == [user : users, active : BOOLEAN, fresh : BOOLEAN]
           off == [logins[t] EXCEPT !.active = FALSE]
           old == [logins[t] EXCEPT !.fresh = FALSE]
<1>1. logins \in Seq(Row)
  BY DEF AccountsTypeOK
<1>2. t \in 1 .. Len(logins)
  BY <1>1, LenProperties
<1>3. logins[t] \in Row
  BY <1>1, <1>2, ElementOfSeq
<1>4. off \in Row /\ old \in Row
  BY <1>3
<1>5. logins' = [logins EXCEPT ![t] = off] \/ logins' = [logins EXCEPT ![t] = old]
  OBVIOUS
<1> HIDE DEF Row, off, old
<1>6. logins' \in Seq(Row) /\ Len(logins') = Len(logins)
  BY <1>1, <1>2, <1>4, <1>5, ExceptSeq
<1> QED
  BY <1>6 DEF AccountsTypeOK, Row

\* An empty server.
LEMMA InitEstablishesInv == Init => PortalInv
<1> SUFFICES ASSUME Init PROVE PortalInv
  OBVIOUS
<1>1. AccountsTypeOK
  BY EmptySeq, AccountsAssumption DEF Init, AccountsInit, AccountsTypeOK
<1>2. RequestOK /\ by \in 0 .. Len(logins)
  BY EmptySeq DEF Init, AccountsInit, RequestOK, NoRequest
<1>3. RowsOK /\ FoundingOK /\ Led
  BY DEF Init, AccountsInit, NoRequest, RowsOK, FoundingOK, Led, NotIn, In, Position, Applicant
<1> QED
  BY <1>1, <1>2, <1>3 DEF PortalInv

\* A request about accounts leaves clans alone: only rows of personas are
\* added, and no founding begins.
LEMMA ClansUntouched ==
  ASSUME PortalInv, UNCHANGED clanVars,
         AccountsTypeOK', RequestOK',
         Len(logins') >= Len(logins),
         DOMAIN personas \subseteq DOMAIN personas',
         request'.kind = "leader" => request' = request
  PROVE  PortalInv'
<1>1. UNCHANGED <<clans, membership, by>>
  BY DEF clanVars
<1>2. RowsOK'
  BY <1>1 DEF PortalInv, RowsOK, In
<1>3. FoundingOK' /\ Led'
  BY <1>1 DEF PortalInv, FoundingOK, Led, LedBy, In, HasPosition, Members
<1>4. Len(logins) \in Nat /\ Len(logins') \in Nat
  BY LenProperties DEF PortalInv, AccountsTypeOK
<1>5. by' \in 0 .. Len(logins')
  BY <1>1, <1>4 DEF PortalInv
<1> QED
  BY <1>2, <1>3, <1>5 DEF PortalInv

\* Registration, personas, logins and requests that are cut off.
LEMMA AccountsKeepInv ==
  ASSUME PortalInv, AccountsNext, UNCHANGED clanVars
  PROVE  PortalInv'
<1>1. /\ Len(logins) \in Nat /\ DOMAIN logins = 1 .. Len(logins)
      /\ Len(personas) \in Nat /\ DOMAIN personas = 1 .. Len(personas)
  BY LenProperties DEF PortalInv, AccountsTypeOK
<1>2. ASSUME NEW u \in Username, Register(u)
      PROVE  PortalInv'
  <2>1. users \subseteq users' /\ users' \subseteq Username
    BY <1>2 DEF Register, PortalInv, AccountsTypeOK
  <2>2. AccountsTypeOK'
    BY <1>2, <2>1, TablesGrow DEF Register, PortalInv, AccountsTypeOK
  <2>3. RequestOK' /\ request'.kind = "persona"
    BY <1>2 DEF Register, RequestOK
  <2> QED
    BY <1>1, <1>2, <2>2, <2>3, ClansUntouched DEF Register
<1>3. ASSUME NEW u \in Username, WebLogin(u)
      PROVE  PortalInv'
  <2> DEFINE Row == [user : users, active : BOOLEAN, fresh : BOOLEAN]
             row == [user |-> u, active |-> TRUE, fresh |-> TRUE]
  <2>1. logins \in Seq(Row) /\ row \in Row /\ logins' = Append(logins, row)
    BY <1>3 DEF WebLogin, PortalInv, AccountsTypeOK
  <2>2. logins' \in Seq(Row) /\ Len(logins') = Len(logins) + 1
    <3> HIDE DEF Row, row
    <3> QED
      BY <2>1, AppendProperties
  <2>3. AccountsTypeOK'
    BY <1>1, <1>3, <2>2, AccountsAssumption DEF WebLogin, PortalInv, AccountsTypeOK
  <2>4. RequestOK' /\ request' = request
    BY <1>3 DEF WebLogin, PortalInv, RequestOK, clanVars
  <2> QED
    BY <1>1, <1>3, <2>2, <2>3, <2>4, ClansUntouched DEF WebLogin
<1>4. ASSUME NEW u \in Username, NEW n \in PersonaName, AddPersona(u, n)
      PROVE  PortalInv'
  <2>1. /\ u \in users /\ Len(personas) < MaxPersonas /\ AddRow(u, n)
        /\ Idle /\ UNCHANGED <<users, entitled, logins, request>>
    BY <1>4 DEF AddPersona
  <2>2. /\ personas' \in Seq([user : users', name : PersonaName])
        /\ Len(personas') <= MaxPersonas
        /\ DOMAIN personas \subseteq DOMAIN personas'
    BY <2>1, AddRowKeepsTables DEF PortalInv
  <2>3. AccountsTypeOK'
    BY <2>1, <2>2 DEF PortalInv, AccountsTypeOK
  <2>4. RequestOK'
    BY <2>1 DEF PortalInv, RequestOK, Idle
  <2> QED
    BY <1>1, <2>1, <2>2, <2>3, <2>4, ClansUntouched
<1>5. ASSUME DefaultPersona
      PROVE  PortalInv'
  <2>1. /\ request.kind = "persona" /\ request.user \in users
        /\ Len(personas) < MaxPersonas
    BY <1>5 DEF DefaultPersona, PortalInv, RequestOK
  <2>2. request.user \in PersonaName
    BY <2>1, AccountsAssumption DEF PortalInv, AccountsTypeOK
  <2>3. AddRow(request.user, request.user) /\ UNCHANGED <<users, entitled, logins>>
    BY <1>5 DEF DefaultPersona
  <2>4. /\ personas' \in Seq([user : users', name : PersonaName])
        /\ Len(personas') <= MaxPersonas
        /\ DOMAIN personas \subseteq DOMAIN personas'
    BY <2>1, <2>2, <2>3, AddRowKeepsTables DEF PortalInv
  <2>5. AccountsTypeOK'
    BY <2>3, <2>4 DEF PortalInv, AccountsTypeOK
  <2>6. request \in [kind : {"persona", "entitlement"}, user : users]
    BY <2>1 DEF PortalInv, RequestOK
  <2>7. /\ request' \in [kind : {"persona", "entitlement"}, user : users]
        /\ request'.kind = "entitlement"
    BY <1>5, <2>6 DEF DefaultPersona
  <2>8. RequestOK'
    BY <2>3, <2>7 DEF RequestOK
  <2> QED
    BY <1>1, <2>3, <2>4, <2>5, <2>7, <2>8, ClansUntouched
<1>6. ASSUME Entitle
      PROVE  PortalInv'
  <2>1. request.user \in users
    BY <1>6 DEF Entitle, PortalInv, RequestOK
  <2>2. AccountsTypeOK'
    BY <1>6, <2>1 DEF Entitle, PortalInv, AccountsTypeOK
  <2>3. RequestOK' /\ request'.kind = "none"
    BY <1>6 DEF Entitle, RequestOK, NoRequest
  <2> QED
    BY <1>1, <1>6, <2>2, <2>3, ClansUntouched DEF Entitle
<1>7. ASSUME CutOff
      PROVE  PortalInv'
  <2>1. AccountsTypeOK'
    BY <1>7 DEF CutOff, PortalInv, AccountsTypeOK
  <2>2. RequestOK' /\ request'.kind = "none"
    BY <1>7 DEF CutOff, RequestOK, NoRequest
  <2> QED
    BY <1>1, <1>7, <2>1, <2>2, ClansUntouched DEF CutOff
<1>8. ASSUME NEW t \in DOMAIN logins, WebLogout(t) \/ LoginExpires(t)
      PROVE  PortalInv'
  <2>1. /\ \/ logins' = [logins EXCEPT ![t].active = FALSE]
           \/ logins' = [logins EXCEPT ![t].fresh = FALSE]
        /\ UNCHANGED <<users, entitled, personas, request>>
    BY <1>8 DEF WebLogout, LoginExpires
  <2>2. AccountsTypeOK' /\ Len(logins') = Len(logins)
    BY <2>1, MarkKeepsLogins DEF PortalInv
  <2>3. RequestOK'
    BY <2>1 DEF PortalInv, RequestOK, clanVars
  <2> QED
    BY <1>1, <2>1, <2>2, <2>3, ClansUntouched
<1> QED
  BY <1>2, <1>3, <1>4, <1>5, <1>6, <1>7, <1>8 DEF AccountsNext

\* One row of clan_membership is rewritten, and nothing else.
LEMMA OneRowChanges ==
  ASSUME PortalInv, NEW t \in DOMAIN logins, NEW p \in DOMAIN personas, NEW row,
         row \in [clan : clans \union {NoClan}, position : Position],
         row.clan = NoClan => row = NotIn,
         Idle, Change(t, p, row)
  PROVE  /\ p \in AnyPersona
         /\ AccountsTypeOK' /\ RequestOK' /\ by' \in 0 .. Len(logins')
         /\ RowsOK' /\ FoundingOK'
         /\ \A q \in AnyPersona : membership'[q] = IF q = p THEN row ELSE membership[q]
<1>1. /\ Len(logins) \in Nat /\ DOMAIN logins = 1 .. Len(logins)
      /\ Len(personas) \in Nat /\ DOMAIN personas = 1 .. Len(personas)
      /\ Len(personas) <= MaxPersonas
  BY LenProperties DEF PortalInv, AccountsTypeOK
<1>2. /\ membership' = [membership EXCEPT ![p] = row] /\ by' = t
      /\ UNCHANGED <<users, entitled, personas, logins, request, clans>>
  BY DEF Change, accountVars
<1>3. p \in AnyPersona
  BY <1>1, AccountsAssumption DEF AnyPersona
<1>4. membership \in [AnyPersona -> [clan : Clan \union {NoClan}, position : Position]]
  BY DEF PortalInv, RowsOK
<1>5. \A q \in AnyPersona : membership'[q] = IF q = p THEN row ELSE membership[q]
  BY <1>2, <1>4
<1>6. AccountsTypeOK' /\ RequestOK' /\ by' \in 0 .. Len(logins')
  BY <1>1, <1>2 DEF PortalInv, AccountsTypeOK, RequestOK
<1>7. row \in [clan : Clan \union {NoClan}, position : Position]
  BY DEF PortalInv, RowsOK
<1>8. membership' \in [AnyPersona -> [clan : Clan \union {NoClan}, position : Position]]
  BY <1>2, <1>3, <1>4, <1>7
<1>9. ASSUME NEW q \in AnyPersona
      PROVE  /\ In(q, NoClan)' => membership'[q] = NotIn
             /\ ~In(q, NoClan)' => q \in DOMAIN personas /\ membership'[q].clan \in clans
  BY <1>5 DEF PortalInv, RowsOK, In
<1>10. RowsOK'
  BY <1>2, <1>8, <1>9 DEF PortalInv, RowsOK, In
<1>11. FoundingOK'
  BY <1>2 DEF Idle, FoundingOK
<1> QED
  BY <1>3, <1>5, <1>6, <1>10, <1>11

\* Somebody who is no leader comes, goes or changes his position: every
\* clan keeps its leader.  He becomes a member only in a clan that is led.
LEMMA FollowersMove ==
  ASSUME PortalInv, NEW t \in DOMAIN logins, NEW p \in DOMAIN personas, NEW row,
         row \in [clan : clans \union {NoClan}, position : Position],
         row.clan = NoClan => row = NotIn,
         row.position # Leader, membership[p].position # Leader,
         row.position = Member => \E l \in AnyPersona : HasPosition(l, row.clan, Leader),
         Idle, Change(t, p, row)
  PROVE  PortalInv'
<1>1. /\ p \in AnyPersona
      /\ AccountsTypeOK' /\ RequestOK' /\ by' \in 0 .. Len(logins')
      /\ RowsOK' /\ FoundingOK'
      /\ \A q \in AnyPersona : membership'[q] = IF q = p THEN row ELSE membership[q]
  BY OneRowChanges
<1>2. clans' = clans
  BY DEF Change
<1>3. ASSUME NEW c \in clans, NEW m \in AnyPersona,
             In(m, c)', membership'[m].position >= Member
      PROVE  \E l \in AnyPersona : LedBy(l, c)'
  <2>1. \A q \in AnyPersona : HasPosition(q, c, Leader)' <=> HasPosition(q, c, Leader)
    BY <1>1 DEF HasPosition, In
  <2>2. Members(c) # {}
    <3>1. CASE m = p
      <4>1. row.clan = c /\ row.position = Member
        BY <1>1, <1>3, <3>1 DEF In, Position, Applicant, Member, Leader
      <4> QED
        BY <4>1 DEF HasPosition, Members, Member, Leader
    <3>2. CASE m # p
      BY <1>1, <1>3, <3>2 DEF Members, In
    <3> QED
      BY <3>1, <3>2
  <2>3. PICK l \in AnyPersona : LedBy(l, c)
    BY <2>2 DEF PortalInv, Led
  <2> QED
    BY <2>1, <2>3 DEF LedBy
<1>4. Led'
  BY <1>2, <1>3 DEF Led, Members
<1> QED
  BY <1>1, <1>4 DEF PortalInv

\* Founding, joining, approving, leaving, kicking and handing over.
LEMMA ClansKeepInv ==
  ASSUME PortalInv, ClansNext
  PROVE  PortalInv'
<1>1. /\ Len(logins) \in Nat /\ DOMAIN logins = 1 .. Len(logins)
      /\ Len(personas) \in Nat /\ DOMAIN personas = 1 .. Len(personas)
      /\ Len(personas) <= MaxPersonas
  BY LenProperties DEF PortalInv, AccountsTypeOK
<1>2. DOMAIN personas \subseteq AnyPersona
  BY <1>1, AccountsAssumption DEF AnyPersona
<1>3. /\ membership \in [AnyPersona -> [clan : Clan \union {NoClan}, position : Position]]
      /\ clans \subseteq Clan
  BY DEF PortalInv, RowsOK
<1>4. NotIn \in [clan : clans \union {NoClan}, position : Position] /\ NotIn.position = Applicant
  BY DEF NotIn, Position
<1>5. ASSUME FirstLeader
      PROVE  PortalInv'
  <2> DEFINE p == request.persona
             c == request.clan
             row == [clan |-> c, position |-> Leader]
  <2>1. /\ p \in DOMAIN personas /\ c \in clans /\ request.kind = "leader"
        /\ membership' = [membership EXCEPT ![p] = row] /\ request' = NoRequest
        /\ UNCHANGED <<users, entitled, personas, logins, clans, by>>
    BY <1>5 DEF FirstLeader, PortalInv, RequestOK
  <2>2. p \in AnyPersona
    BY <1>2, <2>1
  <2>3. membership[p] = NotIn /\ \A q \in AnyPersona : ~In(q, c)
    BY <2>1 DEF PortalInv, FoundingOK
  <2>4. \A q \in AnyPersona : membership'[q] = IF q = p THEN row ELSE membership[q]
    BY <1>3, <2>1
  <2>5. AccountsTypeOK' /\ by' \in 0 .. Len(logins')
    BY <2>1 DEF PortalInv, AccountsTypeOK
  <2>6. RequestOK' /\ FoundingOK'
    BY <2>1 DEF RequestOK, FoundingOK, NoRequest
  <2>7. row \in [clan : Clan \union {NoClan}, position : Position] /\ c # NoClan
    BY <1>3, <2>1, ClansAssumption DEF Position
  <2>8. membership' \in [AnyPersona -> [clan : Clan \union {NoClan}, position : Position]]
    BY <1>3, <2>1, <2>2, <2>7
  <2>9. ASSUME NEW q \in AnyPersona
        PROVE  /\ In(q, NoClan)' => membership'[q] = NotIn
               /\ ~In(q, NoClan)' => q \in DOMAIN personas /\ membership'[q].clan \in clans
    BY <2>1, <2>4, <2>7 DEF PortalInv, RowsOK, In
  <2>10. RowsOK'
    BY <1>3, <2>1, <2>8, <2>9 DEF RowsOK
  <2>11. ASSUME NEW d \in clans, NEW m \in AnyPersona,
               In(m, d)', membership'[m].position >= Member
        PROVE  \E l \in AnyPersona : LedBy(l, d)'
    <3>1. CASE d = c
      BY <2>2, <2>3, <2>4, <3>1 DEF LedBy, HasPosition, In
    <3>2. CASE d # c
      <4>1. \A q \in AnyPersona : HasPosition(q, d, Leader)' <=> HasPosition(q, d, Leader)
        BY <2>3, <2>4, <3>2 DEF HasPosition, In, NotIn, Applicant, Leader
      <4>2. m \in Members(d)
        BY <2>4, <2>11, <3>2 DEF Members, In
      <4>3. PICK l \in AnyPersona : LedBy(l, d)
        BY <4>2 DEF PortalInv, Led
      <4> QED
        BY <4>1, <4>3 DEF LedBy
    <3> QED
      BY <3>1, <3>2
  <2>12. Led'
    BY <2>1, <2>11 DEF Led, Members
  <2> QED
    BY <2>5, <2>6, <2>10, <2>12 DEF PortalInv
<1>6. ASSUME NEW t \in DOMAIN logins, NEW p \in DOMAIN personas, NEW c \in Clan,
             CreateClan(t, p, c)
      PROVE  PortalInv'
  <2>1. /\ c \notin clans /\ IsFree(p) /\ by' = t
        /\ clans' = clans \union {c}
        /\ request' = [kind |-> "leader", persona |-> p, clan |-> c]
        /\ UNCHANGED <<users, entitled, personas, logins, membership>>
    BY <1>6 DEF CreateClan, MayCreate
  <2>2. AccountsTypeOK' /\ by' \in 0 .. Len(logins')
    BY <1>1, <2>1 DEF PortalInv, AccountsTypeOK
  <2>3. RequestOK'
    BY <2>1 DEF RequestOK
  <2>4. RowsOK'
    BY <2>1 DEF PortalInv, RowsOK, In
  <2>5. membership[p] = NotIn
    BY <1>2, <2>1 DEF PortalInv, RowsOK, In, IsFree
  <2>6. \A q \in AnyPersona : ~In(q, c)
    BY <2>1, ClansAssumption DEF PortalInv, RowsOK, In
  <2>7. FoundingOK'
    BY <2>1, <2>5, <2>6 DEF FoundingOK, In
  <2>8. Led'
    BY <2>1, <2>6 DEF PortalInv, Led, LedBy, Members, HasPosition, In
  <2> QED
    BY <2>2, <2>3, <2>4, <2>7, <2>8 DEF PortalInv
<1>7. ASSUME NEW t \in DOMAIN logins, NEW p \in DOMAIN personas, NEW c \in Clan,
             Join(t, p, c)
      PROVE  PortalInv'
  <2> DEFINE row == [clan |-> c, position |-> Applicant]
  <2>1. Idle /\ c \in clans /\ membership[p] = NotIn /\ Change(t, p, row)
    BY <1>7 DEF Join, MayJoin
  <2>2. /\ row \in [clan : clans \union {NoClan}, position : Position]
        /\ row.clan # NoClan /\ row.position = Applicant
    BY <1>3, <2>1, ClansAssumption DEF Position
  <2> HIDE DEF row
  <2> QED
    BY <1>4, <2>1, <2>2, FollowersMove DEF Applicant, Member, Leader
<1>8. ASSUME NEW t \in DOMAIN logins, NEW p \in DOMAIN personas, NEW c \in Clan,
             Approve(t, p, c)
      PROVE  PortalInv'
  <2> DEFINE row == [clan |-> c, position |-> Member]
  <2>1. Idle /\ ByLeader(t, c) /\ HasPosition(p, c, Applicant) /\ Change(t, p, row)
    BY <1>8 DEF Approve, MayDecide
  <2>2. c \in clans
    BY <1>2, <2>1, ClansAssumption DEF HasPosition, In, PortalInv, RowsOK
  <2>3. /\ row \in [clan : clans \union {NoClan}, position : Position]
        /\ row.clan = c /\ c # NoClan /\ row.position = Member
    BY <2>2, ClansAssumption DEF Position
  <2>4. \E l \in AnyPersona : HasPosition(l, c, Leader)
    BY <2>1 DEF ByLeader, Leaders
  <2>5. membership[p].position = Applicant
    BY <2>1 DEF HasPosition
  <2> HIDE DEF row
  <2> QED
    BY <2>1, <2>3, <2>4, <2>5, FollowersMove DEF Applicant, Member, Leader
<1>9. ASSUME NEW t \in DOMAIN logins, NEW p \in DOMAIN personas, NEW c \in Clan,
             Reject(t, p, c) \/ Kick(t, p, c) \/ Leave(t, p)
      PROVE  PortalInv'
  <2>1. Idle /\ membership[p].position # Leader /\ Change(t, p, NotIn)
    BY <1>9 DEF Reject, MayDecide, Kick, MayKick, Leave, MayLeave, HasPosition, Applicant, Leader
  <2> QED
    BY <1>4, <2>1, FollowersMove DEF Applicant, Member, Leader
<1>10. ASSUME NEW t \in DOMAIN logins, NEW p \in DOMAIN personas, NEW c \in Clan,
              Promote(t, p, c)
       PROVE  PortalInv'
  <2>1. PICK l \in Leaders(c) :
          /\ p \in Members(c)
          /\ membership' = [membership EXCEPT ![l].position = Member,
                                              ![p].position = Leader]
    BY <1>10 DEF Promote, MayPromote
  <2>2. /\ Idle /\ by' = t
        /\ UNCHANGED <<users, entitled, personas, logins, request, clans>>
    BY <1>10 DEF Promote, accountVars
  <2>3. l \in AnyPersona /\ HasPosition(l, c, Leader) /\ p \in AnyPersona /\ In(p, c)
    BY <2>1 DEF Leaders, Members
  <2>4. \A q \in AnyPersona :
          /\ membership'[q].clan = membership[q].clan
          /\ membership'[q].position =
               IF q = p THEN Leader ELSE IF q = l THEN Member ELSE membership[q].position
    BY <1>3, <2>1, <2>3
  <2>5. membership' \in [AnyPersona -> [clan : Clan \union {NoClan}, position : Position]]
    BY <1>3, <2>1, <2>3 DEF Position
  <2>6. c # NoClan
    BY <2>3 DEF PortalInv, RowsOK, HasPosition, In, NotIn, Applicant, Leader
  <2>7. AccountsTypeOK' /\ by' \in 0 .. Len(logins') /\ RequestOK' /\ FoundingOK'
    BY <1>1, <2>2 DEF PortalInv, AccountsTypeOK, RequestOK, Idle, FoundingOK
  <2>8. ASSUME NEW q \in AnyPersona
        PROVE  /\ In(q, NoClan)' => membership'[q] = NotIn
               /\ ~In(q, NoClan)' => q \in DOMAIN personas /\ membership'[q].clan \in clans
    <3>1. CASE q = p \/ q = l
      BY <2>3, <2>4, <2>6, <3>1 DEF PortalInv, RowsOK, In, HasPosition
    <3>2. CASE q # p /\ q # l
      <4>1. membership'[q] = membership[q]
        BY <1>3, <2>1, <3>2
      <4> QED
        BY <4>1 DEF PortalInv, RowsOK, In
    <3> QED
      BY <3>1, <3>2
  <2>9. RowsOK'
    BY <1>3, <2>2, <2>5, <2>8 DEF RowsOK
  <2>10. ASSUME NEW d \in clans, NEW m \in AnyPersona,
                In(m, d)', membership'[m].position >= Member
         PROVE  \E k \in AnyPersona : LedBy(k, d)'
    <3>1. CASE d = c
      <4>1. l \in Members(c)
        BY <2>3 DEF Members, HasPosition, Member, Leader
      <4>2. PICK k \in AnyPersona : LedBy(k, c)
        BY <3>1, <4>1 DEF PortalInv, Led
      <4>3. k = l
        BY <2>3, <4>2 DEF LedBy
      <4>4. LedBy(p, c)'
        BY <2>3, <2>4, <4>2, <4>3 DEF LedBy, HasPosition, In, Member, Leader
      <4> QED
        BY <2>3, <3>1, <4>4
    <3>2. CASE d # c
      <4>1. m \in Members(d) /\ m # p /\ m # l
        BY <2>3, <2>4, <2>10, <3>2 DEF Members, In, HasPosition
      <4>2. PICK k \in AnyPersona : LedBy(k, d)
        BY <4>1 DEF PortalInv, Led
      <4>3. LedBy(k, d)'
        BY <2>3, <2>4, <3>2, <4>2 DEF LedBy, HasPosition, In
      <4> QED
        BY <4>3
    <3> QED
      BY <3>1, <3>2
  <2>11. Led'
    BY <2>2, <2>10 DEF Led, Members
  <2> QED
    BY <2>7, <2>9, <2>11 DEF PortalInv
<1> QED
  <2>1. CASE \E t \in DOMAIN logins, p \in DOMAIN personas : Leave(t, p)
    <3>1. PICK t \in DOMAIN logins, p \in DOMAIN personas : Leave(t, p)
      BY <2>1
    <3>2. Idle /\ membership[p].position # Leader /\ Change(t, p, NotIn)
      BY <3>1 DEF Leave, MayLeave
    <3> QED
      BY <1>4, <3>2, FollowersMove DEF Applicant, Member, Leader
  <2> QED
    BY <1>5, <1>6, <1>7, <1>8, <1>9, <1>10, <2>1 DEF ClansNext

LEMMA NextKeepsInv == PortalInv /\ [Next]_vars => PortalInv'
<1>1. ASSUME PortalInv, UNCHANGED vars
      PROVE  PortalInv'
  <2>1. UNCHANGED <<users, entitled, personas, logins, request, clans, membership, by>>
    BY <1>1 DEF vars, accountVars, clanVars
  <2> QED
    BY <1>1, <2>1 DEF PortalInv, AccountsTypeOK, RequestOK, RowsOK, FoundingOK, Led, LedBy,
                      HasPosition, In, Members
<1> QED
  BY <1>1, AccountsKeepInv, ClansKeepInv DEF Next

\* In every reachable state.
LEMMA PortalIsSound == Spec => []PortalInv
BY InitEstablishesInv, NextKeepsInv, PTL DEF Spec

\* The tables are well formed and foundings are clean.
THEOREM TypeCorrect == Spec => []PortalTypeOK
<1>1. PortalInv => PortalTypeOK
  BY DEF PortalInv, PortalTypeOK, RequestOK, RowsOK, FoundingOK
<1> QED
  BY PortalIsSound, <1>1, PTL

\* A clan with members has exactly one leader, whatever was cut off.
THEOREM OneLeader == Spec => []ClansAreLed
<1>1. ASSUME PortalInv PROVE ClansAreLed
  <2> SUFFICES ASSUME NEW c \in clans, Members(c) # {}
               PROVE  Cardinality(Leaders(c)) = 1
    BY DEF ClansAreLed
  <2>1. PICK l \in AnyPersona : LedBy(l, c)
    BY <1>1 DEF PortalInv, Led
  <2>2. Leaders(c) = {l}
    BY <2>1 DEF LedBy, Leaders
  <2> QED
    BY <2>2, FS_Singleton
<1> QED
  BY PortalIsSound, <1>1, PTL

\* Where rows are well formed, a persona is free exactly if it has no row.
LEMMA FreeHasNoRow ==
  ASSUME PortalInv, NEW p \in AnyPersona
  PROVE  IsFree(p) <=> membership[p] = NotIn
BY ClansAssumption DEF PortalInv, RowsOK, IsFree, In, NotIn

\* Every form and button works, and one persona is offered all it may do.
THEOREM PagesAreHonest == Spec => []OffersAreTaken
<1>1. ASSUME PortalInv PROVE OffersAreTaken
  <2> USE <1>1
  <2>1. SUFFICES ASSUME NEW t \in DOMAIN logins, NEW p \in AnyPersona
                 PROVE  LET u == CurrentUser(t) IN
                        /\ \A c \in Clan \ clans : p \in CreatePage(u) <=> MayCreate(t, p, c)
                        /\ \A c \in clans :
                             LET page == DetailPage(u, c) IN
                             /\ p \in page.join => MayJoin(t, p, c)
                             /\ p \in page.leave => MayLeave(t, p)
                             /\ p \in page.decide <=> MayDecide(t, p, c)
                             /\ p \in page.rule <=> MayKick(t, p, c) /\ MayPromote(t, p, c)
                             /\ PersonasOf(u) = {p} =>
                                  /\ MayJoin(t, p, c) => p \in page.join
                                  /\ HasPosition(p, c, Member) => p \in page.leave
    BY DEF OffersAreTaken
  <2> DEFINE u == CurrentUser(t)
  <2>2. DOMAIN personas \subseteq AnyPersona
    BY LenProperties, AccountsAssumption DEF PortalInv, AccountsTypeOK, AnyPersona
  <2>3. PersonasOf(u) \subseteq AnyPersona
    BY <2>2 DEF PersonasOf
  <2>4. \A c \in Clan \ clans : p \in CreatePage(u) <=> MayCreate(t, p, c)
    BY DEF CreatePage, Free, MayCreate
  <2>5. ASSUME NEW c \in clans
        PROVE  LET page == DetailPage(u, c) IN
               /\ p \in page.join => MayJoin(t, p, c)
               /\ p \in page.leave => MayLeave(t, p)
               /\ p \in page.decide <=> MayDecide(t, p, c)
               /\ p \in page.rule <=> MayKick(t, p, c) /\ MayPromote(t, p, c)
               /\ PersonasOf(u) = {p} =>
                    /\ MayJoin(t, p, c) => p \in page.join
                    /\ HasPosition(p, c, Member) => p \in page.leave
    <3> DEFINE page == DetailPage(u, c)
               leads == \E l \in PersonasOf(u) : HasPosition(l, c, Leader)
    <3>1. /\ page.join = (IF Shown(u) = {} THEN Free(u) ELSE {})
          /\ page.leave = {q \in Shown(u) : HasPosition(q, c, Member)}
          /\ p \in page.decide <=> leads /\ HasPosition(p, c, Applicant)
          /\ p \in page.rule <=> leads /\ HasPosition(p, c, Member)
      BY DEF DetailPage, Panel
    <3>2. leads <=> ByLeader(t, c)
      BY <2>3 DEF ByLeader, Leaders
    <3>3. membership[p].position \in Position
      BY DEF PortalInv, RowsOK
    <3>4. p \in page.join => MayJoin(t, p, c)
      BY <3>1, FreeHasNoRow DEF Free, MayJoin
    <3>5. HasPosition(p, c, Member) => membership[p] # NotIn
      BY DEF HasPosition, NotIn, Member, Applicant
    <3>6. p \in page.leave => MayLeave(t, p)
      BY <3>1, <3>5 DEF Shown, MayLeave, HasPosition, Member, Leader
    <3>7. p \in page.decide <=> MayDecide(t, p, c)
      BY <3>1, <3>2 DEF MayDecide
    <3>8. HasPosition(p, c, Member)
            <=> In(p, c) /\ membership[p].position # Leader /\ p \in Members(c)
      BY <3>3 DEF HasPosition, Members, Position, Applicant, Member, Leader
    <3>9. p \in page.rule <=> MayKick(t, p, c) /\ MayPromote(t, p, c)
      BY <3>1, <3>2, <3>8 DEF MayKick, MayPromote
    <3>10. ASSUME PersonasOf(u) = {p}, MayJoin(t, p, c)
           PROVE  p \in page.join
      <4>1. membership[p] = NotIn /\ Shown(u) = {}
        BY <3>10 DEF MayJoin, Shown
      <4> QED
        BY <3>1, <3>10, <4>1, FreeHasNoRow DEF Free
    <3>11. ASSUME PersonasOf(u) = {p}, HasPosition(p, c, Member)
           PROVE  p \in page.leave
      <4>1. p \in Shown(u)
        <5>1. ~(p > p)
          BY DEF AnyPersona
        <5> QED
          BY <3>5, <3>11, <5>1 DEF Shown
      <4> QED
        BY <3>1, <3>11, <4>1
    <3> QED
      BY <3>4, <3>6, <3>7, <3>9, <3>10, <3>11
  <2> QED
    BY <2>4, <2>5
<1> QED
  BY PortalIsSound, <1>1, PTL

\* The founder of the clan that is being founded belongs to the account
\* whose request founds it.
FounderOwns ==
  request.kind = "leader" =>
    /\ by \in DOMAIN logins
    /\ personas[request.persona].user = logins[by].user

\* What the rows of the two account tables are made of.
LEMMA RowTypes ==
  ASSUME AccountsTypeOK
  PROVE  /\ \A t \in DOMAIN logins :
              /\ logins[t] \in [user : users, active : BOOLEAN, fresh : BOOLEAN]
              /\ logins[t].user \in Username
         /\ \A p \in DOMAIN personas : personas[p].user \in Username
<1> DEFINE Login == [user : users, active : BOOLEAN, fresh : BOOLEAN]
           Row == [user : users, name : PersonaName]
<1>1. logins \in Seq(Login) /\ personas \in Seq(Row) /\ users \subseteq Username
  BY DEF AccountsTypeOK
<1>2. (\A t \in DOMAIN logins : logins[t] \in Login)
      /\ (\A p \in DOMAIN personas : personas[p] \in Row)
  <2> HIDE DEF Login, Row
  <2> QED
    BY <1>1, LenProperties, ElementOfSeq
<1> QED
  BY <1>1, <1>2

LEMMA NextKeepsFounder ==
  ASSUME PortalInv, FounderOwns, [Next]_vars
  PROVE  FounderOwns'
<1>1. logins \in Seq([user : users, active : BOOLEAN, fresh : BOOLEAN])
  BY DEF PortalInv, AccountsTypeOK
<1>2. SUFFICES ASSUME request'.kind = "leader"
               PROVE  /\ by' \in DOMAIN logins'
                      /\ personas'[request'.persona].user = logins'[by'].user
  BY DEF FounderOwns
<1>3. CASE UNCHANGED vars
  BY <1>2, <1>3 DEF vars, accountVars, clanVars, FounderOwns
<1>4. CASE AccountsNext /\ UNCHANGED clanVars
  <2>1. PICK t \in DOMAIN logins : LoginExpires(t)
    <3>1. ~DefaultPersona
      <4>1. request.kind = "persona" =>
              request \in [kind : {"persona", "entitlement"}, user : users]
        BY DEF PortalInv, RequestOK
      <4> QED
        BY <1>2, <4>1 DEF DefaultPersona
    <3>2. /\ \A u \in Username : ~Register(u) /\ ~WebLogin(u)
          /\ \A u \in Username, n \in PersonaName : ~AddPersona(u, n)
          /\ ~Entitle /\ ~CutOff
          /\ \A t \in DOMAIN logins : ~WebLogout(t)
      BY <1>2 DEF Register, WebLogin, AddPersona, Entitle, CutOff, WebLogout, Idle, NoRequest
    <3> QED
      BY <1>4, <3>1, <3>2 DEF AccountsNext
  <2>2. /\ logins' = [logins EXCEPT ![t].fresh = FALSE]
        /\ UNCHANGED <<personas, request, by>>
    BY <1>4, <2>1 DEF LoginExpires, clanVars
  <2>3. by \in DOMAIN logins /\ personas[request.persona].user = logins[by].user
    BY <1>2, <2>2 DEF FounderOwns
  <2>4. DOMAIN logins' = DOMAIN logins
    BY <1>1, <2>2, LenProperties
  <2>5. logins[by] \in [user : users, active : BOOLEAN, fresh : BOOLEAN]
    BY <2>3, RowTypes DEF PortalInv
  <2>6. logins'[by].user = logins[by].user
    BY <2>2, <2>3, <2>5
  <2> QED
    BY <2>2, <2>3, <2>4, <2>6
<1>5. CASE ClansNext
  <2>1. PICK t \in DOMAIN logins, p \in DOMAIN personas, c \in Clan : CreateClan(t, p, c)
    BY <1>2, <1>5 DEF ClansNext, FirstLeader, NoRequest, Leave, Join, Approve, Reject, Kick,
                      Promote, Change, accountVars, Idle
  <2>2. /\ p \in PersonasOf(CurrentUser(t)) /\ by' = t
        /\ request' = [kind |-> "leader", persona |-> p, clan |-> c]
        /\ UNCHANGED <<personas, logins>>
    BY <2>1 DEF CreateClan, MayCreate
  <2>3. logins[t].user \in Username
    BY RowTypes DEF PortalInv
  <2>4. personas[p].user = logins[t].user
    <3>1. personas[p].user = CurrentUser(t) /\ personas[p].user \in Username
      BY <2>2, RowTypes DEF PersonasOf, PortalInv
    <3> QED
      BY <3>1, AccountsAssumption DEF CurrentUser
  <2> QED
    BY <2>2, <2>4
<1> QED
  BY <1>3, <1>4, <1>5 DEF Next

\* Whoever changes a membership owns the persona or leads its clan.
THEOREM OnlyOwners == Spec => OnlyOwnerOrLeader
<1> DEFINE Allowed(p) ==
      LET old == membership[p]
          new == membership'[p]
          owner == personas[p].user = logins[by'].user
          leads(c) == \E l \in AnyPersona :
                        /\ HasPosition(l, c, Leader)
                        /\ personas[l].user = logins[by'].user
          founds == request = [kind |-> "leader", persona |-> p, clan |-> new.clan]
      IN /\ by' \in DOMAIN logins
         /\ founds \/ (logins[by'].active /\ logins[by'].fresh)
         /\ old = NotIn => owner /\ (founds \/ new.position = Applicant)
         /\ new = NotIn => owner \/ leads(old.clan)
         /\ old # NotIn /\ new # NotIn => old.clan = new.clan /\ leads(old.clan)
<1>1. ASSUME PortalInv, FounderOwns, [Next]_vars, NEW p \in AnyPersona,
             membership'[p] # membership[p]
      PROVE  Allowed(p)
  <2> USE <1>1
  <2>1. membership \in [AnyPersona -> [clan : Clan \union {NoClan}, position : Position]]
    BY DEF PortalInv, RowsOK
  <2>2. \A t \in DOMAIN logins : logins[t].user \in Username
    BY RowTypes DEF PortalInv
  <2>3. DOMAIN personas \subseteq AnyPersona
    BY LenProperties, AccountsAssumption DEF PortalInv, AccountsTypeOK, AnyPersona
  <2>4. \A t \in DOMAIN logins, q \in DOMAIN personas :
          q \in PersonasOf(CurrentUser(t)) =>
            /\ personas[q].user = logins[t].user
            /\ logins[t].active /\ logins[t].fresh
    <3>1. \A q \in DOMAIN personas : personas[q].user \in Username
      BY RowTypes DEF PortalInv
    <3> QED
      BY <3>1, AccountsAssumption DEF PersonasOf, CurrentUser, Valid
  <2>5. \A t \in DOMAIN logins, c \in Clan :
          ByLeader(t, c) =>
            /\ logins[t].active /\ logins[t].fresh
            /\ \E l \in AnyPersona : HasPosition(l, c, Leader) /\ personas[l].user = logins[t].user
    BY <2>3, <2>4 DEF ByLeader, Leaders, PersonasOf
  <2>6. ClansNext
    BY DEF Next, vars, clanVars
  <2>7. CASE FirstLeader
    <3>1. /\ request.kind = "leader" /\ by' = by /\ p = request.persona
          /\ membership'[p] = [clan |-> request.clan, position |-> Leader]
      BY <2>1, <2>7 DEF FirstLeader
    <3>2. request \in [kind : {"leader"}, persona : DOMAIN personas, clan : clans]
      BY <3>1 DEF PortalInv, RequestOK
    <3>3. request = [kind |-> "leader", persona |-> p, clan |-> membership'[p].clan]
      BY <3>1, <3>2
    <3>4. by \in DOMAIN logins /\ personas[p].user = logins[by].user
      BY <3>1 DEF FounderOwns
    <3>5. membership[p] = NotIn /\ membership'[p] # NotIn
      BY <3>1 DEF PortalInv, FoundingOK, NotIn, Leader, Applicant
    <3> QED
      BY <3>1, <3>3, <3>4, <3>5
  <2>8. ASSUME NEW t \in DOMAIN logins, NEW q \in DOMAIN personas, NEW c \in Clan,
               Join(t, q, c)
        PROVE  Allowed(p)
    <3>1. p = q /\ membership[p] = NotIn /\ by' = t /\ q \in PersonasOf(CurrentUser(t))
      BY <2>1, <2>8 DEF Join, MayJoin, Change
    <3>2. membership'[p] = [clan |-> c, position |-> Applicant]
      BY <2>1, <2>8, <3>1 DEF Join, MayJoin, Change
    <3>3. membership'[p] # NotIn
      BY <3>2, ClansAssumption DEF NotIn
    <3> QED
      BY <2>4, <3>1, <3>2, <3>3
  <2>9. ASSUME NEW t \in DOMAIN logins, NEW q \in DOMAIN personas, NEW c \in Clan,
               Approve(t, q, c)
        PROVE  Allowed(p)
    <3>1. p = q /\ by' = t /\ ByLeader(t, c) /\ membership[p].clan = c
      BY <2>1, <2>9 DEF Approve, MayDecide, Change, HasPosition, In
    <3>2. membership'[p] = [clan |-> c, position |-> Member]
      BY <2>1, <2>9, <3>1 DEF Approve, MayDecide, Change
    <3>3. membership[p] # NotIn /\ membership'[p] # NotIn
      BY <3>1, <3>2, ClansAssumption DEF NotIn
    <3> QED
      BY <2>5, <3>1, <3>2, <3>3
  <2>10. ASSUME NEW t \in DOMAIN logins, NEW q \in DOMAIN personas, NEW c \in Clan,
                Reject(t, q, c) \/ Kick(t, q, c)
         PROVE  Allowed(p)
    <3>1. p = q /\ by' = t /\ ByLeader(t, c) /\ membership[p].clan = c
      BY <2>1, <2>10 DEF Reject, MayDecide, Kick, MayKick, Change, HasPosition, In
    <3>2. membership'[p] = NotIn /\ membership[p] # NotIn
      BY <2>1, <2>10, <3>1, ClansAssumption DEF Reject, MayDecide, Kick, MayKick, Change, NotIn
    <3> QED
      BY <2>5, <3>1, <3>2
  <2>11. ASSUME NEW t \in DOMAIN logins, NEW q \in DOMAIN personas, Leave(t, q)
         PROVE  Allowed(p)
    <3>1. /\ p = q /\ by' = t /\ q \in PersonasOf(CurrentUser(t))
          /\ membership'[p] = NotIn /\ membership[p] # NotIn
      BY <2>1, <2>11 DEF Leave, MayLeave, Change
    <3> QED
      BY <2>4, <3>1
  <2>12. ASSUME NEW t \in DOMAIN logins, NEW q \in DOMAIN personas, NEW c \in Clan,
                Promote(t, q, c)
         PROVE  Allowed(p)
    <3>1. PICK l \in Leaders(c) :
            /\ l \in PersonasOf(CurrentUser(t))
            /\ q \in Members(c)
            /\ membership' = [membership EXCEPT ![l].position = Member,
                                                ![q].position = Leader]
      BY <2>12 DEF Promote, MayPromote
    <3>2. by' = t
      BY <2>12 DEF Promote, MayPromote
    <3>3. l \in AnyPersona /\ HasPosition(l, c, Leader) /\ q \in AnyPersona /\ In(q, c)
      BY <3>1 DEF Leaders, Members
    <3>4. personas[l].user = logins[t].user /\ logins[t].active /\ logins[t].fresh
      BY <2>4, <3>1 DEF PersonasOf
    <3>5. p = l \/ p = q
      BY <2>1, <3>1
    <3>6. membership[p].clan = c /\ membership'[p].clan = c
      BY <2>1, <3>1, <3>3, <3>5 DEF HasPosition, In
    <3>7. membership[p] # NotIn /\ membership'[p] # NotIn
      BY <3>6, ClansAssumption DEF NotIn
    <3> QED
      BY <3>2, <3>3, <3>4, <3>6, <3>7
  <2>13. \A t \in DOMAIN logins, q \in DOMAIN personas, c \in Clan : ~CreateClan(t, q, c)
    BY DEF CreateClan
  <2> HIDE DEF Allowed
  <2> QED
    BY <2>6, <2>7, <2>8, <2>9, <2>10, <2>11, <2>12, <2>13, Zenon DEF ClansNext
<1>2. Init => FounderOwns
  BY DEF Init, AccountsInit, NoRequest, FounderOwns
<1>3. PortalInv /\ FounderOwns /\ [Next]_vars
        => [\A p \in AnyPersona : membership'[p] # membership[p] => Allowed(p)]_vars
  <2> HIDE DEF Allowed
  <2> QED
    BY <1>1
<1>4. PortalInv /\ FounderOwns /\ [Next]_vars => FounderOwns'
  BY NextKeepsFounder
<1>5. Spec => [][\A p \in AnyPersona : membership'[p] # membership[p] => Allowed(p)]_vars
  <2> HIDE DEF Allowed
  <2> QED
    BY PortalIsSound, <1>2, <1>3, <1>4, PTL DEF Spec
<1> QED
  BY <1>5 DEF OnlyOwnerOrLeader

====

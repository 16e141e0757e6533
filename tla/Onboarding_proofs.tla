------------------------- MODULE Onboarding_proofs -------------------------
(***************************************************************************)
(* Proofs about Onboarding, for any users, requests, scripts and faults:   *)
(* type correctness, and that roles and invites stay with their company.   *)
(***************************************************************************)
EXTENDS Onboarding, TLAPS

JoinSteps == {"inviteRole", "saveBoth", "userLeft", "inviteLeft"}
FounderSteps == {"saveUser", "founderInvite"}
RoleSteps == {"insertInvite", "updateUser", "deleteRole"}
NameSteps == {"newRole", "insertRole"}
ObSteps == ObOps \cup JoinSteps \cup FounderSteps \cup RoleSteps
           \cup {"loadUser", "permit", "makeRoles", "insertRole"}

ObCalls == [op : ObOps, user : ObUsers, company : Nat, id : Nat, to : ObUsers]
ObRecords ==
    [pc : ObSteps, req : ObCalls, tenant : Nat, role : Nat, company : Nat, invite : Nat]

\* What a request has found so far still holds at its next step: companies,
\* roles and invites stay in their collections and a role never changes company.
Carries(r, companies, roles, invites) ==
    /\ r \in ObRecords
    /\ r.req.op = "join" => r.req.id \in DOMAIN invites
    /\ r.pc = "join" => r.req.op = "join"
    /\ r.pc = "loadUser" => r.req.op \in {"found", "join"}
    /\ r.pc = "permit" => r.req.op \notin {"found", "join"}
    /\ r.pc = "makeRoles" => r.company \in 1..companies
    /\ r.pc \in FounderSteps \cup JoinSteps => OfCompany(roles, r.role, r.company)
    /\ r.pc \in JoinSteps => r.invite \in DOMAIN invites
    /\ r.pc \in RoleSteps => OfCompany(roles, r.req.id, r.tenant)
    /\ r.pc \in NameSteps => r.tenant \in 1..companies

AllCarry ==
    /\ DOMAIN obProc = ObProcs
    /\ obProc = [p \in ObProcs |-> obProc[p]]
    /\ \A p \in ObProcs :
          obProc[p] = ObIdle \/ Carries(obProc[p], obCompanies, obRoles, obInvites)

ObScriptTyped == obScript \in [ops : SUBSET ObOps, left : Nat, faults : Nat]

AllSettled == ObSettled(obUser, obCompanies, obRoles, obInvites)

ObInv == AllSettled /\ ObScriptTyped /\ AllCarry

\* The collections only grow, and roles keep their company.
Grows ==
    /\ obCompanies \in Nat /\ obCompanies' \in Nat /\ obCompanies <= obCompanies'
    /\ DOMAIN obRoles \subseteq DOMAIN obRoles' /\ DOMAIN obInvites \subseteq DOMAIN obInvites'
    /\ \A r \in DOMAIN obRoles : obRoles'[r].company = obRoles[r].company
-----------------------------------------------------------------------------
(* Lemmas. *)

\* Appending keeps what a sequence has; so does replacing each element.
LEMMA ObAppend ==
    ASSUME NEW S, NEW q \in Seq(S), NEW x \in S
    PROVE  /\ Append(q, x) \in Seq(S) /\ DOMAIN q \subseteq DOMAIN Append(q, x)
           /\ \A i \in DOMAIN Append(q, x) : Append(q, x)[i] = IF i \in DOMAIN q THEN q[i] ELSE x
OBVIOUS

LEMMA ObConcat ==
    ASSUME NEW S, NEW q \in Seq(S), NEW more \in Seq(S)
    PROVE  /\ q \o more \in Seq(S) /\ Len(q \o more) = Len(q) + Len(more)
           /\ \A i \in 1 .. Len(q) + Len(more) :
                 (q \o more)[i] = IF i <= Len(q) THEN q[i] ELSE more[i - Len(q)]
OBVIOUS

LEMMA ObReplace ==
    ASSUME NEW S, NEW q \in Seq(S), NEW f, DOMAIN f = DOMAIN q, f = [i \in DOMAIN q |-> f[i]],
           \A i \in DOMAIN q : f[i] \in S
    PROVE  f \in Seq(S)
<1>1. PICK n \in Nat : DOMAIN q = 1 .. n
  OBVIOUS
<1>2. f \in [1 .. n -> S]
  BY <1>1
<1> QED
  BY <1>1, <1>2

LEMMA ObElement == ASSUME NEW S, NEW q \in Seq(S), NEW i \in DOMAIN q PROVE q[i] \in S
OBVIOUS

\* A request is at work only if it is not idle, and then it carries what it found.
LEMMA ObAtWork ==
    ASSUME ObInv, NEW p \in ObProcs, NEW pc, ObAt(p, pc), pc # "idle"
    PROVE  Carries(obProc[p], obCompanies, obRoles, obInvites) /\ obProc[p].pc = pc
BY DEF ObInv, AllCarry, ObAt, ObIdle

\* What a request found survives the growth of the collections.
LEMMA CarriesOn ==
    ASSUME Grows, NEW r, Carries(r, obCompanies, obRoles, obInvites)
    PROVE  Carries(r, obCompanies', obRoles', obInvites')
<1>1. \A id, c : OfCompany(obRoles, id, c) => OfCompany(obRoles', id, c)
  BY DEF Grows, OfCompany
<1>2. \A c : c \in 1..obCompanies => c \in 1..obCompanies'
  BY DEF Grows
<1> QED
  BY <1>1, <1>2 DEF Grows, Carries

LEMMA ObOthers ==
    ASSUME ObInv, Grows, NEW p \in ObProcs, NEW new, obProc' = [obProc EXCEPT ![p] = new],
           new = ObIdle \/ Carries(new, obCompanies', obRoles', obInvites')
    PROVE  AllCarry'
<1>1. \A q \in ObProcs : obProc'[q] = IF q = p THEN new ELSE obProc[q]
  BY DEF ObInv, AllCarry
<1>2. ASSUME NEW q \in ObProcs
      PROVE  obProc'[q] = ObIdle \/ Carries(obProc'[q], obCompanies', obRoles', obInvites')
  BY <1>1, CarriesOn DEF ObInv, AllCarry
<1> QED
  BY <1>1, <1>2 DEF ObInv, AllCarry

\* A step that only advances or ends a request, or spends a fault.
LEMMA OnRequest ==
    ASSUME ObInv, NEW p \in ObProcs, NEW new, obProc' = [obProc EXCEPT ![p] = new],
           new = ObIdle \/ Carries(new, obCompanies, obRoles, obInvites),
           UNCHANGED <<obUser, obCompanies, obRoles, obInvites>>, ObScriptTyped'
    PROVE  ObInv'
<1>1. obCompanies' = obCompanies /\ obRoles' = obRoles /\ obInvites' = obInvites /\ obUser' = obUser
  OBVIOUS
<1>2. Grows
  BY <1>1 DEF ObInv, AllSettled, ObSettled, Grows
<1>3. new = ObIdle \/ Carries(new, obCompanies', obRoles', obInvites')
  BY <1>1
<1>4. AllCarry'
  BY <1>2, <1>3, ObOthers
<1> QED
  BY <1>1, <1>4 DEF ObInv, AllSettled

\* A request may go on to a step that it carries enough for.
LEMMA ObGoesOn ==
    ASSUME NEW r, Carries(r, obCompanies, obRoles, obInvites), NEW pc \in ObSteps,
           pc = "join" => r.req.op = "join",
           pc \notin {"loadUser", "permit"},
           pc = "makeRoles" => r.company \in 1..obCompanies,
           pc \in FounderSteps \cup JoinSteps => OfCompany(obRoles, r.role, r.company),
           pc \in JoinSteps => r.invite \in DOMAIN obInvites,
           pc \in RoleSteps => OfCompany(obRoles, r.req.id, r.tenant),
           pc \in NameSteps => r.tenant \in 1..obCompanies
    PROVE  Carries([r EXCEPT !.pc = pc], obCompanies, obRoles, obInvites)
<1>1. [r EXCEPT !.pc = pc] \in ObRecords
  BY DEF Carries, ObRecords
<1>2. /\ [r EXCEPT !.pc = pc].pc = pc /\ [r EXCEPT !.pc = pc].req = r.req
      /\ [r EXCEPT !.pc = pc].tenant = r.tenant /\ [r EXCEPT !.pc = pc].role = r.role
      /\ [r EXCEPT !.pc = pc].company = r.company /\ [r EXCEPT !.pc = pc].invite = r.invite
  BY DEF Carries, ObRecords
<1> QED
  BY <1>1, <1>2 DEF Carries

\* The stored documents have their fields.
LEMMA RoleFields ==
    ASSUME AllSettled, NEW r \in DOMAIN obRoles
    PROVE  r \in Nat /\ obRoles[r] \in RoleDocs /\ obRoles[r].company \in 1..obCompanies
BY ObElement DEF AllSettled, ObSettled

LEMMA InviteFields ==
    ASSUME AllSettled, NEW i \in DOMAIN obInvites
    PROVE  /\ obInvites[i] \in InviteDocs
           /\ OfCompany(obRoles, obInvites[i].role, obInvites[i].company)
BY ObElement DEF AllSettled, ObSettled

LEMMA RequestFields ==
    ASSUME NEW r, Carries(r, obCompanies, obRoles, obInvites)
    PROVE  /\ r \in ObRecords /\ r.pc \in ObSteps /\ r.req \in ObCalls /\ r.req.op \in ObOps
           /\ r.req.user \in ObUsers /\ r.req.to \in ObUsers /\ r.req.id \in Nat
           /\ r.tenant \in Nat /\ r.role \in Nat /\ r.company \in Nat /\ r.invite \in Nat
BY DEF Carries, ObRecords, ObCalls
-----------------------------------------------------------------------------
(* Steps that store nothing. *)

\* What a user sends is a call, and a join names an invite that is stored.
LEMMA RequestsTyped ==
    ASSUME ObInv, NEW op \in ObOps, NEW user \in ObUsers, NEW req \in ObRequests(op, user)
    PROVE  req \in ObCalls /\ req.op = op /\ (op = "join" => req.id \in DOMAIN obInvites)
<1>1. /\ \A r \in DOMAIN obRoles : r \in Nat
      /\ \A i \in DOMAIN obInvites : i \in Nat
      /\ \A c \in 1..obCompanies : c \in Nat
  BY DEF ObInv, AllSettled, ObSettled
<1>2. PICK company \in Nat, id \in Nat, to \in ObUsers :
          /\ req = ObRequest(op, user, company, id, to)
          /\ op = "join" => id \in DOMAIN obInvites
  <2>1. CASE op \in {"found", "newRole"}
    BY <2>1 DEF ObRequests, NoCompany
  <2>2. CASE op = "join"
    BY <1>1, <2>2 DEF ObRequests
  <2>3. CASE op = "revoke"
    <3>1. ObRequests(op, user) =
             {ObRequest(op, user, NoCompany, i, user) : i \in DOMAIN obInvites}
      BY <2>3 DEF ObRequests
    <3>2. PICK i \in DOMAIN obInvites : req = ObRequest(op, user, NoCompany, i, user)
      BY <3>1
    <3> QED
      BY <1>1, <2>3, <3>2 DEF NoCompany
  <2>4. CASE op \in {"editRole", "dropRole"}
    <3>1. ObRequests(op, user) =
             {ObRequest(op, user, NoCompany, r, user) : r \in DOMAIN obRoles}
      BY <2>4 DEF ObRequests
    <3>2. PICK r \in DOMAIN obRoles : req = ObRequest(op, user, NoCompany, r, user)
      BY <3>1
    <3> QED
      BY <1>1, <2>4, <3>2 DEF NoCompany
  <2>5. CASE op \in {"invite", "assign"}
    <3>1. ObRequests(op, user) =
             {ObRequest(op, user, NoCompany, r, to) : r \in DOMAIN obRoles, to \in ObUsers}
      BY <2>5 DEF ObRequests
    <3>2. PICK r \in DOMAIN obRoles, to \in ObUsers :
             req = ObRequest(op, user, NoCompany, r, to)
      BY <3>1
    <3> QED
      BY <1>1, <2>5, <3>2 DEF NoCompany
  <2> QED
    BY <2>1, <2>2, <2>3, <2>4, <2>5 DEF ObOps
<1> QED
  BY <1>2 DEF ObRequest, ObCalls

LEMMA ObArriveKeeps == ASSUME ObInv, NEW p \in ObProcs, ObArrive(p) PROVE ObInv'
<1>1. PICK op \in obScript.ops, user \in ObUsers : \E req \in ObRequests(op, user) :
          obProc' = [obProc EXCEPT ![p] =
                 [pc |-> IF req.op \in {"found", "join"} THEN "loadUser" ELSE "permit",
                  req |-> req, tenant |-> obUser[req.user].company,
                  role |-> obUser[req.user].role, company |-> NoCompany, invite |-> 0]]
  BY DEF ObArrive
<1>2. PICK req \in ObRequests(op, user) :
          obProc' = [obProc EXCEPT ![p] =
                 [pc |-> IF req.op \in {"found", "join"} THEN "loadUser" ELSE "permit",
                  req |-> req, tenant |-> obUser[req.user].company,
                  role |-> obUser[req.user].role, company |-> NoCompany, invite |-> 0]]
  BY <1>1
<1>3. op \in ObOps
  BY DEF ObInv, ObScriptTyped
<1>4. req \in ObCalls /\ (req.op = "join" => req.id \in DOMAIN obInvites)
  BY <1>3, RequestsTyped
<1>5. obUser[req.user].company \in Nat /\ obUser[req.user].role \in Nat
  BY <1>4 DEF ObCalls, ObInv, AllSettled, ObSettled
<1> DEFINE new == [pc |-> IF req.op \in {"found", "join"} THEN "loadUser" ELSE "permit",
                   req |-> req, tenant |-> obUser[req.user].company,
                   role |-> obUser[req.user].role, company |-> NoCompany, invite |-> 0]
<1>6. new \in ObRecords
  BY <1>4, <1>5 DEF ObRecords, ObSteps, NoCompany
<1>7. Carries(new, obCompanies, obRoles, obInvites)
  BY <1>4, <1>6 DEF Carries, FounderSteps, JoinSteps, RoleSteps, NameSteps
<1>8. ObScriptTyped'
  BY DEF ObArrive, ObInv, ObScriptTyped
<1> HIDE DEF new
<1> QED
  BY <1>2, <1>7, <1>8, OnRequest DEF ObArrive, new

LEMMA PermitKeeps == ASSUME ObInv, NEW p \in ObProcs, Permit(p) PROVE ObInv'
<1> DEFINE r == obProc[p]
           new == [r EXCEPT !.pc = r.req.op]
<1>1. Carries(r, obCompanies, obRoles, obInvites) /\ r.pc = "permit"
  BY ObAtWork DEF Permit
<1>2. ObScriptTyped'
  BY DEF Permit, ObQuiet, ObInv, ObScriptTyped
<1>3. CASE obProc' = [obProc EXCEPT ![p] = ObIdle]
  BY <1>2, <1>3, OnRequest DEF Permit, ObQuiet
<1>4. CASE /\ \E q \in RoleOf(r.role, r.tenant) : obRoles[q].grants = "all"
           /\ obProc' = [obProc EXCEPT ![p] = new]
  <2>1. r.tenant \in 1..obCompanies
    BY <1>4, RoleFields DEF RoleOf, ObInv
  <2>2. r.req.op \in ObOps /\ r.req.op \in ObSteps /\ r.req.op # "join"
    BY <1>1, RequestFields DEF Carries, ObSteps
  <2>3. Carries(new, obCompanies, obRoles, obInvites)
    BY <1>1, <2>1, <2>2, ObGoesOn
       DEF ObOps, FounderSteps, JoinSteps, RoleSteps, NameSteps
  <2> HIDE DEF new
  <2> QED
    BY <1>2, <1>4, <2>3, OnRequest DEF Permit, ObQuiet
<1> QED
  BY <1>3, <1>4 DEF Permit, ObGo, ObDone

LEMMA ObFailKeeps == ASSUME ObInv, NEW p \in ObProcs, ObFail(p) PROVE ObInv'
<1>1. ObScriptTyped'
  BY DEF ObFail, ObInv, ObScriptTyped
<1> QED
  BY <1>1, OnRequest DEF ObFail, ObDone

LEMMA LoadUserKeeps == ASSUME ObInv, NEW p \in ObProcs, LoadUser(p) PROVE ObInv'
<1> DEFINE r == obProc[p]
           new == [r EXCEPT !.pc = r.req.op]
<1>1. Carries(r, obCompanies, obRoles, obInvites) /\ r.pc = "loadUser"
  BY ObAtWork DEF LoadUser
<1>2. ObScriptTyped'
  BY DEF LoadUser, ObQuiet, ObInv, ObScriptTyped
<1>3. CASE obProc' = [obProc EXCEPT ![p] = ObIdle]
  BY <1>2, <1>3, OnRequest DEF LoadUser, ObQuiet
<1>4. CASE obProc' = [obProc EXCEPT ![p] = new]
  <2>1. r.req.op \in {"found", "join"} /\ r.req.op \in ObSteps
    BY <1>1 DEF Carries, ObSteps, ObOps
  <2>2. Carries(new, obCompanies, obRoles, obInvites)
    BY <1>1, <2>1, ObGoesOn DEF FounderSteps, JoinSteps, RoleSteps, NameSteps
  <2> HIDE DEF new
  <2> QED
    BY <1>2, <1>4, <2>2, OnRequest DEF LoadUser, ObQuiet
<1> QED
  BY <1>3, <1>4 DEF LoadUser, ObGo, ObDone

LEMMA CheckNameKeeps == ASSUME ObInv, NEW p \in ObProcs, CheckName(p) PROVE ObInv'
<1> DEFINE r == obProc[p]
           new == [r EXCEPT !.pc = "insertRole"]
<1>1. Carries(r, obCompanies, obRoles, obInvites) /\ r.pc = "newRole"
  BY ObAtWork DEF CheckName
<1>2. ObScriptTyped'
  BY DEF CheckName, ObQuiet, ObInv, ObScriptTyped
<1>3. r.tenant \in 1..obCompanies /\ "insertRole" \in ObSteps
  BY <1>1 DEF Carries, NameSteps, ObSteps
<1>4. Carries(new, obCompanies, obRoles, obInvites)
  BY <1>1, <1>3, ObGoesOn DEF FounderSteps, JoinSteps, RoleSteps, NameSteps
<1>5. obProc' = [obProc EXCEPT ![p] = new] \/ obProc' = [obProc EXCEPT ![p] = ObIdle]
  BY DEF CheckName, ObGo, ObDone
<1> HIDE DEF new
<1> QED
  BY <1>2, <1>4, <1>5, OnRequest DEF CheckName, ObQuiet

LEMMA FindRoleKeeps == ASSUME ObInv, NEW p \in ObProcs, FindRole(p) PROVE ObInv'
<1> DEFINE r == obProc[p]
<1>1. PICK op \in {"invite", "assign", "dropRole"} :
          /\ ObAt(p, op)
          /\ \/ ObDone(p)
             \/ /\ RoleOf(r.req.id, r.tenant) # {}
                /\ ObGo(p, CASE op = "invite" -> "insertInvite"
                             [] op = "assign" -> "updateUser"
                             [] op = "dropRole" -> "deleteRole")
  BY DEF FindRole
<1>2. Carries(r, obCompanies, obRoles, obInvites)
  BY <1>1, ObAtWork
<1>3. ObScriptTyped'
  BY DEF FindRole, ObQuiet, ObInv, ObScriptTyped
<1>4. CASE ObDone(p)
  BY <1>3, <1>4, OnRequest DEF FindRole, ObQuiet, ObDone
<1>5. CASE RoleOf(r.req.id, r.tenant) # {} /\ \E pc \in RoleSteps : ObGo(p, pc)
  <2>1. OfCompany(obRoles, r.req.id, r.tenant)
    BY <1>5 DEF RoleOf, OfCompany
  <2>2. PICK pc \in RoleSteps : obProc' = [obProc EXCEPT ![p] = [r EXCEPT !.pc = pc]]
    BY <1>5 DEF ObGo
  <2>3. Carries([r EXCEPT !.pc = pc], obCompanies, obRoles, obInvites)
    <3>1. pc \in ObSteps
      BY DEF ObSteps
    <3>2. pc \notin {"join", "loadUser", "permit", "makeRoles"} \cup FounderSteps \cup JoinSteps
            \cup NameSteps
      BY DEF FounderSteps, JoinSteps, RoleSteps, NameSteps
    <3> HIDE DEF r
    <3> QED
      BY <1>2, <2>1, <3>1, <3>2, ObGoesOn
  <2> QED
    BY <1>3, <2>2, <2>3, OnRequest DEF FindRole, ObQuiet
<1> QED
  BY <1>1, <1>4, <1>5 DEF RoleSteps

LEMMA FindInviteKeeps == ASSUME ObInv, NEW p \in ObProcs, FindInvite(p) PROVE ObInv'
<1> DEFINE r == obProc[p]
           invite == obInvites[r.req.id]
           new == [r EXCEPT !.pc = "inviteRole", !.company = r.req.company, !.invite = r.req.id,
                            !.role = invite.role]
<1>1. Carries(r, obCompanies, obRoles, obInvites) /\ r.pc = "join"
  BY ObAtWork DEF FindInvite
<1>2. ObScriptTyped'
  BY DEF FindInvite, ObQuiet, ObInv, ObScriptTyped
<1>3. CASE obProc' = [obProc EXCEPT ![p] = ObIdle]
  BY <1>2, <1>3, OnRequest DEF FindInvite, ObQuiet
<1>4. CASE invite.company = r.req.company /\ obProc' = [obProc EXCEPT ![p] = new]
  <2>1. r.req.id \in DOMAIN obInvites /\ r.req.op = "join"
    BY <1>1 DEF Carries
  <2>2. OfCompany(obRoles, invite.role, r.req.company) /\ invite.role \in Nat
    BY <1>4, <2>1, InviteFields DEF ObInv, InviteDocs
  <2>3. new \in ObRecords
    <3>1. r \in ObRecords /\ "inviteRole" \in ObSteps /\ r.req.company \in Nat /\ r.req.id \in Nat
      BY <1>1, RequestFields DEF ObCalls, ObSteps, JoinSteps
    <3> HIDE DEF r, ObSteps, invite
    <3> QED
      BY <2>2, <3>1 DEF ObRecords
  <2>4. /\ new.pc = "inviteRole" /\ new.req = r.req /\ new.company = r.req.company
        /\ new.invite = r.req.id /\ new.role = invite.role
    BY <1>1, RequestFields DEF ObRecords
  <2> HIDE DEF new, invite, r
  <2>5. Carries(new, obCompanies, obRoles, obInvites)
    BY <2>1, <2>2, <2>3, <2>4 DEF Carries, FounderSteps, JoinSteps, RoleSteps, NameSteps
  <2> QED
    BY <1>2, <1>4, <2>5, OnRequest DEF FindInvite, ObQuiet
<1> QED
  BY <1>3, <1>4 DEF FindInvite, ObDone

LEMMA FindInviteRoleKeeps == ASSUME ObInv, NEW p \in ObProcs, FindInviteRole(p) PROVE ObInv'
<1> DEFINE r == obProc[p]
           new == [r EXCEPT !.pc = "saveBoth"]
<1>1. Carries(r, obCompanies, obRoles, obInvites) /\ r.pc = "inviteRole"
  BY ObAtWork DEF FindInviteRole
<1>2. ObScriptTyped'
  BY DEF FindInviteRole, ObQuiet, ObInv, ObScriptTyped
<1>3. /\ OfCompany(obRoles, r.role, r.company) /\ r.invite \in DOMAIN obInvites
      /\ "saveBoth" \in ObSteps
  BY <1>1 DEF Carries, JoinSteps, ObSteps
<1>4. Carries(new, obCompanies, obRoles, obInvites)
  BY <1>1, <1>3, ObGoesOn DEF FounderSteps, JoinSteps, RoleSteps, NameSteps
<1>5. obProc' = [obProc EXCEPT ![p] = new] \/ obProc' = [obProc EXCEPT ![p] = ObIdle]
  BY DEF FindInviteRole, ObGo, ObDone
<1> HIDE DEF new
<1> QED
  BY <1>2, <1>4, <1>5, OnRequest DEF FindInviteRole, ObQuiet
-----------------------------------------------------------------------------
(* Steps that store roles and companies. *)

\* Roles are added or change, never their company; users and invites are left alone.
LEMMA OnRoles ==
    ASSUME ObInv, NEW p \in ObProcs, NEW new, obProc' = [obProc EXCEPT ![p] = new],
           new = ObIdle \/ Carries(new, obCompanies', obRoles', obInvites),
           obCompanies' \in Nat, obCompanies <= obCompanies', obRoles' \in Seq(RoleDocs),
           DOMAIN obRoles \subseteq DOMAIN obRoles',
           \A r \in DOMAIN obRoles : obRoles'[r].company = obRoles[r].company,
           \A r \in DOMAIN obRoles' : obRoles'[r].company \in 1..obCompanies',
           UNCHANGED <<obUser, obInvites, obScript>>
    PROVE  ObInv'
<1>1. Grows
  BY DEF ObInv, AllSettled, ObSettled, Grows
<1>2. obInvites' = obInvites /\ obUser' = obUser /\ obScript' = obScript
  OBVIOUS
<1>3. new = ObIdle \/ Carries(new, obCompanies', obRoles', obInvites')
  BY <1>2
<1>4. AllCarry'
  BY <1>1, <1>3, ObOthers
<1>5. \A id, c : OfCompany(obRoles, id, c) => OfCompany(obRoles', id, c)
  BY <1>1 DEF Grows, OfCompany
<1>6. AllSettled'
  BY <1>2, <1>5 DEF ObInv, AllSettled, ObSettled
<1> QED
  BY <1>2, <1>4, <1>6 DEF ObInv, ObScriptTyped

LEMMA MakeCompanyKeeps == ASSUME ObInv, NEW p \in ObProcs, MakeCompany(p) PROVE ObInv'
<1> DEFINE r == obProc[p]
           new == [r EXCEPT !.pc = "makeRoles", !.company = obCompanies + 1]
<1>1. Carries(r, obCompanies, obRoles, obInvites) /\ r.pc = "found"
  BY ObAtWork DEF MakeCompany
<1>2. /\ obCompanies \in Nat /\ obRoles \in Seq(RoleDocs)
      /\ \A q \in DOMAIN obRoles : obRoles[q].company \in 1..obCompanies
  BY DEF ObInv, AllSettled, ObSettled
<1>3. obCompanies' = obCompanies + 1 /\ obProc' = [obProc EXCEPT ![p] = new]
      /\ UNCHANGED <<obUser, obRoles, obInvites, obScript>>
  BY DEF MakeCompany
<1>4. new \in ObRecords /\ new.pc = "makeRoles" /\ new.req = r.req /\ new.company = obCompanies + 1
  <2>1. r \in ObRecords /\ "makeRoles" \in ObSteps /\ obCompanies + 1 \in Nat
    BY <1>1, <1>2, RequestFields DEF ObSteps
  <2> HIDE DEF r
  <2> QED
    BY <2>1 DEF ObRecords
<1>5. r.req.op = "join" => r.req.id \in DOMAIN obInvites
  BY <1>1 DEF Carries
<1> HIDE DEF new, r
<1>6. Carries(new, obCompanies', obRoles', obInvites)
  <2>1. new.company \in 1..obCompanies'
    BY <1>2, <1>3, <1>4
  <2> QED
    BY <2>1, <1>4, <1>5 DEF Carries, FounderSteps, JoinSteps, RoleSteps, NameSteps
<1>7. obRoles' = obRoles /\ \A q \in DOMAIN obRoles : obRoles[q].company \in 1..obCompanies'
  BY <1>2, <1>3
<1>8. obCompanies' \in Nat /\ obCompanies <= obCompanies'
  BY <1>2, <1>3
<1> QED
  BY <1>2, <1>3, <1>6, <1>7, <1>8, OnRoles

LEMMA MakeRolesKeeps == ASSUME ObInv, NEW p \in ObProcs, MakeRoles(p) PROVE ObInv'
<1> DEFINE r == obProc[p]
           c == r.company
           new == [r EXCEPT !.pc = "saveUser", !.role = Len(obRoles) + 1]
           three == <<NewRole(c, "Admin", TRUE, "all"), NewRole(c, "Member", TRUE, "some"),
                      NewRole(c, "Viewer", TRUE, "some")>>
<1>1. Carries(r, obCompanies, obRoles, obInvites) /\ r.pc = "makeRoles"
  BY ObAtWork DEF MakeRoles
<1>2. /\ obCompanies \in Nat /\ obRoles \in Seq(RoleDocs) /\ Len(obRoles) \in Nat
      /\ \A q \in DOMAIN obRoles : obRoles[q].company \in 1..obCompanies
  BY DEF ObInv, AllSettled, ObSettled
<1>3. c \in 1..obCompanies /\ (r.req.op = "join" => r.req.id \in DOMAIN obInvites)
  BY <1>1 DEF Carries
<1>4. three \in Seq(RoleDocs) /\ Len(three) = 3 /\ \A k \in 1..3 : three[k].company = c
  <2> DEFINE Role(name, grants) == NewRole(c, name, TRUE, grants)
  <2>1. \A name \in {"Admin", "Member", "Viewer"}, grants \in {"all", "some"} :
           Role(name, grants) \in RoleDocs /\ Role(name, grants).company = c
    BY <1>2, <1>3 DEF NewRole, RoleDocs
  <2>2. three = <<Role("Admin", "all"), Role("Member", "some"), Role("Viewer", "some")>>
    OBVIOUS
  <2> HIDE DEF Role, three
  <2> QED
    BY <2>1, <2>2
<1>5. /\ obRoles' = obRoles \o three /\ obProc' = [obProc EXCEPT ![p] = new]
      /\ UNCHANGED <<obUser, obCompanies, obInvites, obScript>>
  BY DEF MakeRoles
<1>6. /\ new \in ObRecords /\ new.pc = "saveUser" /\ new.req = r.req /\ new.company = c
      /\ new.role = Len(obRoles) + 1
  <2>1. r \in ObRecords /\ "saveUser" \in ObSteps /\ Len(obRoles) + 1 \in Nat
    BY <1>1, <1>2, RequestFields DEF ObSteps, FounderSteps
  <2> HIDE DEF r
  <2> QED
    BY <2>1 DEF ObRecords
<1> HIDE DEF new, three, c, r
<1>7. /\ obRoles' \in Seq(RoleDocs) /\ DOMAIN obRoles' = 1 .. Len(obRoles) + 3
      /\ DOMAIN obRoles = 1 .. Len(obRoles)
      /\ \A q \in DOMAIN obRoles : obRoles'[q] = obRoles[q]
      /\ \A k \in 1..3 : obRoles'[Len(obRoles) + k] = three[k]
  <2>1. obRoles' = obRoles \o three
    BY <1>5
  <2>2. obRoles' \in Seq(RoleDocs) /\ Len(obRoles') = Len(obRoles) + 3
    <3>1. /\ obRoles \o three \in Seq(RoleDocs)
          /\ Len(obRoles \o three) = Len(obRoles) + Len(three)
      BY <1>2, <1>4, ObConcat
    <3> QED
      BY <3>1, <1>4, <2>1
  <2>3. DOMAIN obRoles' = 1 .. Len(obRoles) + 3 /\ DOMAIN obRoles = 1 .. Len(obRoles)
    BY <1>2, <2>2
  <2>4. \A q \in 1 .. Len(obRoles) + Len(three) :
           (obRoles \o three)[q] = IF q <= Len(obRoles) THEN obRoles[q] ELSE three[q - Len(obRoles)]
    BY <1>2, <1>4, ObConcat
  <2>5. \A k \in 1..3 : /\ Len(obRoles) + k \in 1 .. Len(obRoles) + 3
                        /\ ~(Len(obRoles) + k <= Len(obRoles))
                        /\ (Len(obRoles) + k) - Len(obRoles) = k
    BY <1>2
  <2> QED
    BY <1>2, <1>4, <2>1, <2>2, <2>3, <2>4, <2>5
<1>8. \A q \in DOMAIN obRoles' : obRoles'[q].company \in 1..obCompanies
  <2> SUFFICES ASSUME NEW q \in DOMAIN obRoles' PROVE obRoles'[q].company \in 1..obCompanies
    OBVIOUS
  <2>1. CASE q \in DOMAIN obRoles
    BY <1>2, <1>7, <2>1
  <2>2. CASE q \notin DOMAIN obRoles
    <3>1. q - Len(obRoles) \in 1..3 /\ q = Len(obRoles) + (q - Len(obRoles))
      BY <1>2, <1>7, <2>2
    <3> QED
      BY <1>3, <1>4, <1>7, <3>1
  <2> QED
    BY <2>1, <2>2
<1>9. OfCompany(obRoles', new.role, new.company)
  <2>1. Len(obRoles) + 1 \in DOMAIN obRoles' /\ obRoles'[Len(obRoles) + 1] = three[1]
    BY <1>2, <1>7
  <2> QED
    BY <1>4, <1>6, <2>1 DEF OfCompany
<1>10. Carries(new, obCompanies, obRoles', obInvites)
  BY <1>3, <1>6, <1>9 DEF Carries, FounderSteps, JoinSteps, RoleSteps, NameSteps
<1>11. DOMAIN obRoles \subseteq DOMAIN obRoles'
  BY <1>2, <1>7
<1>12. obCompanies' = obCompanies /\ obCompanies <= obCompanies
  BY <1>2, <1>5
<1> QED
  BY <1>2, <1>5, <1>7, <1>8, <1>10, <1>11, <1>12, OnRoles

LEMMA InsertRoleKeeps == ASSUME ObInv, NEW p \in ObProcs, InsertRole(p) PROVE ObInv'
<1> DEFINE c == obProc[p].tenant
<1>1. Carries(obProc[p], obCompanies, obRoles, obInvites) /\ obProc[p].pc = "insertRole"
  BY ObAtWork DEF InsertRole
<1>2. /\ obCompanies \in Nat /\ obRoles \in Seq(RoleDocs)
      /\ \A q \in DOMAIN obRoles : obRoles[q].company \in 1..obCompanies
  BY DEF ObInv, AllSettled, ObSettled
<1>3. c \in 1..obCompanies
  BY <1>1 DEF Carries, NameSteps
<1>4. PICK grants \in {"all", "some"} :
          obRoles' = IF NameTaken(c, "Clerk") THEN obRoles
                     ELSE Append(obRoles, NewRole(c, "Clerk", FALSE, grants))
  BY DEF InsertRole
<1> DEFINE new == NewRole(c, "Clerk", FALSE, grants)
<1>5. new \in RoleDocs /\ new.company = c
  BY <1>2, <1>3 DEF NewRole, RoleDocs
<1> HIDE DEF new, c
<1>6. /\ obRoles' \in Seq(RoleDocs) /\ DOMAIN obRoles \subseteq DOMAIN obRoles'
      /\ \A q \in DOMAIN obRoles' : obRoles'[q] = IF q \in DOMAIN obRoles THEN obRoles[q] ELSE new
  BY <1>2, <1>4, <1>5, ObAppend DEF new
<1>7. /\ \A q \in DOMAIN obRoles : obRoles'[q].company = obRoles[q].company
      /\ \A q \in DOMAIN obRoles' : obRoles'[q].company \in 1..obCompanies
  BY <1>2, <1>3, <1>5, <1>6
<1>8. obCompanies' = obCompanies /\ obCompanies <= obCompanies
  BY <1>2 DEF InsertRole
<1> QED
  BY <1>2, <1>6, <1>7, <1>8, OnRoles DEF InsertRole, ObDone

LEMMA UpdateRoleKeeps == ASSUME ObInv, NEW p \in ObProcs, UpdateRole(p) PROVE ObInv'
<1>1. /\ obCompanies \in Nat /\ obRoles \in Seq(RoleDocs)
      /\ \A q \in DOMAIN obRoles : obRoles[q].company \in 1..obCompanies
  BY DEF ObInv, AllSettled, ObSettled
<1>2. PICK grants \in {"all", "some"} :
          /\ DOMAIN obRoles' = DOMAIN obRoles
          /\ obRoles' = [r \in DOMAIN obRoles |-> obRoles'[r]]
          /\ \A r \in DOMAIN obRoles : \/ obRoles'[r] = obRoles[r]
                                       \/ obRoles'[r] = [obRoles[r] EXCEPT !.grants = grants]
  BY DEF UpdateRole
<1>3. ASSUME NEW r \in DOMAIN obRoles
      PROVE  obRoles'[r] \in RoleDocs /\ obRoles'[r].company = obRoles[r].company
  <2>1. obRoles[r] \in RoleDocs
    BY <1>1, ObElement
  <2> QED
    BY <2>1, <1>2 DEF RoleDocs
<1>4. obRoles' \in Seq(RoleDocs)
  BY <1>1, <1>2, <1>3, ObReplace
<1>5. /\ \A q \in DOMAIN obRoles : obRoles'[q].company = obRoles[q].company
      /\ \A q \in DOMAIN obRoles' : obRoles'[q].company \in 1..obCompanies
  BY <1>1, <1>2, <1>3
<1>6. obCompanies' = obCompanies /\ obCompanies <= obCompanies
  BY <1>1 DEF UpdateRole
<1> QED
  BY <1>1, <1>2, <1>4, <1>5, <1>6, OnRoles DEF UpdateRole, ObDone

LEMMA DeleteRoleKeeps == ASSUME ObInv, NEW p \in ObProcs, DeleteRole(p) PROVE ObInv'
<1> DEFINE id == obProc[p].req.id
<1>1. /\ obCompanies \in Nat /\ obRoles \in Seq(RoleDocs)
      /\ \A q \in DOMAIN obRoles : obRoles[q].company \in 1..obCompanies
  BY DEF ObInv, AllSettled, ObSettled
<1>2. /\ DOMAIN obRoles' = DOMAIN obRoles
      /\ obRoles' = [r \in DOMAIN obRoles |-> obRoles'[r]]
      /\ \A r \in DOMAIN obRoles : \/ obRoles'[r] = obRoles[r]
                                   \/ obRoles'[r] = [obRoles[r] EXCEPT !.gone = TRUE]
  BY DEF DeleteRole
<1>3. ASSUME NEW r \in DOMAIN obRoles
      PROVE  obRoles'[r] \in RoleDocs /\ obRoles'[r].company = obRoles[r].company
  <2>1. obRoles[r] \in RoleDocs
    BY <1>1, ObElement
  <2> QED
    <3>1. /\ [obRoles[r] EXCEPT !.gone = TRUE] \in RoleDocs
          /\ [obRoles[r] EXCEPT !.gone = TRUE].company = obRoles[r].company
      BY <2>1 DEF RoleDocs
    <3> QED
      BY <1>2, <2>1, <3>1
<1>4. obRoles' \in Seq(RoleDocs)
  BY <1>1, <1>2, <1>3, ObReplace
<1>5. /\ \A q \in DOMAIN obRoles : obRoles'[q].company = obRoles[q].company
      /\ \A q \in DOMAIN obRoles' : obRoles'[q].company \in 1..obCompanies
  BY <1>1, <1>2, <1>3
<1>6. obCompanies' = obCompanies /\ obCompanies <= obCompanies
  BY <1>1 DEF DeleteRole
<1> QED
  BY <1>1, <1>2, <1>4, <1>5, <1>6, OnRoles DEF DeleteRole, ObDone
-----------------------------------------------------------------------------
(* Steps that store users. *)

\* A user leaves for a company with one of its roles, or keeps what he has.
LEMMA OnUsers ==
    ASSUME ObInv, NEW p \in ObProcs, NEW new, obProc' = [obProc EXCEPT ![p] = new],
           new = ObIdle \/ Carries(new, obCompanies, obRoles, obInvites),
           obUser' \in [ObUsers -> [company : Nat, role : Nat]],
           \A u \in ObUsers : \/ obUser'[u] = obUser[u]
                              \/ OfCompany(obRoles, obUser'[u].role, obUser'[u].company),
           UNCHANGED <<obCompanies, obRoles, obInvites, obScript>>
    PROVE  ObInv'
<1>1. /\ obCompanies' = obCompanies /\ obRoles' = obRoles /\ obInvites' = obInvites
      /\ obScript' = obScript
  OBVIOUS
<1>2. Grows
  BY <1>1 DEF ObInv, AllSettled, ObSettled, Grows
<1>3. new = ObIdle \/ Carries(new, obCompanies', obRoles', obInvites')
  BY <1>1
<1>4. AllCarry'
  BY <1>2, <1>3, ObOthers
<1>5. ASSUME NEW u \in ObUsers
      PROVE  IF obUser'[u].company = NoCompany THEN obUser'[u].role = NoRole
             ELSE OfCompany(obRoles, obUser'[u].role, obUser'[u].company)
  <2>1. CASE obUser'[u] = obUser[u]
    BY <2>1 DEF ObInv, AllSettled, ObSettled
  <2>2. CASE OfCompany(obRoles, obUser'[u].role, obUser'[u].company)
    BY <2>2, RoleFields DEF OfCompany, NoCompany, ObInv
  <2> QED
    BY <2>1, <2>2
<1>6. AllSettled'
  BY <1>1, <1>5 DEF ObInv, AllSettled, ObSettled
<1> QED
  BY <1>1, <1>4, <1>6 DEF ObInv, ObScriptTyped

\* A user gets the pair that his request carries.
LEMMA PairSaved ==
    ASSUME ObInv, NEW p \in ObProcs, Carries(obProc[p], obCompanies, obRoles, obInvites),
           OfCompany(obRoles, obProc[p].role, obProc[p].company),
           obUser' = [obUser EXCEPT ![obProc[p].req.user] =
               [company |-> obProc[p].company, role |-> obProc[p].role]]
    PROVE  /\ obUser' \in [ObUsers -> [company : Nat, role : Nat]]
           /\ \A u \in ObUsers : \/ obUser'[u] = obUser[u]
                                 \/ OfCompany(obRoles, obUser'[u].role, obUser'[u].company)
<1> DEFINE r == obProc[p]
           pair == [company |-> r.company, role |-> r.role]
<1>1. r.req.user \in ObUsers /\ r.company \in Nat /\ r.role \in Nat
  BY RequestFields
<1>2. pair \in [company : Nat, role : Nat] /\ OfCompany(obRoles, pair.role, pair.company)
  BY <1>1
<1>3. obUser \in [ObUsers -> [company : Nat, role : Nat]]
  BY DEF ObInv, AllSettled, ObSettled
<1>4. obUser' = [obUser EXCEPT ![r.req.user] = pair]
  OBVIOUS
<1> HIDE DEF r, pair
<1> QED
  <2>1. obUser' \in [ObUsers -> [company : Nat, role : Nat]]
    BY <1>1, <1>2, <1>3, <1>4
  <2>2. ASSUME NEW u \in ObUsers
        PROVE  obUser'[u] = IF u = r.req.user THEN pair ELSE obUser[u]
    BY <1>3, <1>4
  <2>3. ASSUME NEW u \in ObUsers
        PROVE  \/ obUser'[u] = obUser[u]
               \/ OfCompany(obRoles, obUser'[u].role, obUser'[u].company)
    <3>1. obUser'[u] = pair \/ obUser'[u] = obUser[u]
      BY <2>2
    <3> QED
      BY <1>2, <3>1
  <2> QED
    BY <2>1, <2>3

LEMMA SaveFounderKeeps == ASSUME ObInv, NEW p \in ObProcs, SaveFounder(p) PROVE ObInv'
<1> DEFINE r == obProc[p]
           new == [r EXCEPT !.pc = "founderInvite"]
<1>1. Carries(r, obCompanies, obRoles, obInvites) /\ r.pc = "saveUser"
  BY ObAtWork DEF SaveFounder
<1>2. OfCompany(obRoles, r.role, r.company) /\ "founderInvite" \in ObSteps
  BY <1>1 DEF Carries, FounderSteps, ObSteps
<1>3. Carries(new, obCompanies, obRoles, obInvites)
  BY <1>1, <1>2, ObGoesOn DEF FounderSteps, JoinSteps, RoleSteps, NameSteps
<1>4. /\ obUser' \in [ObUsers -> [company : Nat, role : Nat]]
      /\ \A u \in ObUsers : \/ obUser'[u] = obUser[u]
                            \/ OfCompany(obRoles, obUser'[u].role, obUser'[u].company)
  BY <1>1, <1>2, PairSaved DEF SaveFounder
<1>5. obProc' = [obProc EXCEPT ![p] = new]
  BY DEF SaveFounder, ObGo
<1> HIDE DEF new
<1> QED
  BY <1>3, <1>4, <1>5, OnUsers DEF SaveFounder

LEMMA SaveMemberKeeps == ASSUME ObInv, NEW p \in ObProcs, SaveMember(p) PROVE ObInv'
<1> DEFINE r == obProc[p]
           new == [r EXCEPT !.pc = "inviteLeft"]
<1>1. Carries(r, obCompanies, obRoles, obInvites) /\ r.pc \in {"saveBoth", "userLeft"}
  BY ObAtWork DEF SaveMember
<1>2. /\ OfCompany(obRoles, r.role, r.company) /\ r.invite \in DOMAIN obInvites
      /\ "inviteLeft" \in ObSteps
  BY <1>1 DEF Carries, JoinSteps, ObSteps
<1>3. Carries(new, obCompanies, obRoles, obInvites)
  BY <1>1, <1>2, ObGoesOn DEF FounderSteps, JoinSteps, RoleSteps, NameSteps
<1>4. /\ obUser' \in [ObUsers -> [company : Nat, role : Nat]]
      /\ \A u \in ObUsers : \/ obUser'[u] = obUser[u]
                            \/ OfCompany(obRoles, obUser'[u].role, obUser'[u].company)
  BY <1>1, <1>2, PairSaved DEF SaveMember
<1>5. obProc' = [obProc EXCEPT ![p] = new] \/ obProc' = [obProc EXCEPT ![p] = ObIdle]
  BY DEF SaveMember, ObGo, ObDone
<1> HIDE DEF new
<1> QED
  BY <1>3, <1>4, <1>5, OnUsers DEF SaveMember

LEMMA AssignRoleKeeps == ASSUME ObInv, NEW p \in ObProcs, AssignRole(p) PROVE ObInv'
<1> DEFINE r == obProc[p]
<1>1. Carries(r, obCompanies, obRoles, obInvites) /\ r.pc = "updateUser"
  BY ObAtWork DEF AssignRole
<1>2. OfCompany(obRoles, r.req.id, r.tenant) /\ r.req.id \in Nat
  BY <1>1, RequestFields DEF Carries, RoleSteps
<1>3. obUser \in [ObUsers -> [company : Nat, role : Nat]]
  BY DEF ObInv, AllSettled, ObSettled
<1>4. /\ DOMAIN obUser' = ObUsers /\ obUser' = [u \in ObUsers |-> obUser'[u]]
      /\ \A u \in ObUsers :
            \/ obUser'[u] = obUser[u]
            \/ obUser[u].company = r.tenant /\ obUser'[u] = [obUser[u] EXCEPT !.role = r.req.id]
  BY DEF AssignRole, Assignee
<1> HIDE DEF r
<1>5. ASSUME NEW u \in ObUsers
      PROVE  /\ obUser'[u] \in [company : Nat, role : Nat]
             /\ \/ obUser'[u] = obUser[u]
                \/ OfCompany(obRoles, obUser'[u].role, obUser'[u].company)
  BY <1>2, <1>3, <1>4
<1>6. obUser' \in [ObUsers -> [company : Nat, role : Nat]]
  BY <1>4, <1>5
<1> QED
  BY <1>5, <1>6, OnUsers DEF AssignRole, ObDone
-----------------------------------------------------------------------------
(* Steps that store invites. *)

\* Invites are added or change, never their company or role.
LEMMA OnInvites ==
    ASSUME ObInv, NEW p \in ObProcs, NEW new, obProc' = [obProc EXCEPT ![p] = new],
           new = ObIdle \/ Carries(new, obCompanies, obRoles, obInvites'),
           obInvites' \in Seq(InviteDocs), DOMAIN obInvites \subseteq DOMAIN obInvites',
           \A i \in DOMAIN obInvites' : OfCompany(obRoles, obInvites'[i].role, obInvites'[i].company),
           UNCHANGED <<obUser, obCompanies, obRoles, obScript>>
    PROVE  ObInv'
<1>1. obCompanies' = obCompanies /\ obRoles' = obRoles /\ obUser' = obUser /\ obScript' = obScript
  OBVIOUS
<1>2. Grows
  BY <1>1 DEF ObInv, AllSettled, ObSettled, Grows
<1>3. new = ObIdle \/ Carries(new, obCompanies', obRoles', obInvites')
  BY <1>1
<1>4. AllCarry'
  BY <1>2, <1>3, ObOthers
<1>5. AllSettled'
  BY <1>1 DEF ObInv, AllSettled, ObSettled
<1> QED
  BY <1>1, <1>4, <1>5 DEF ObInv, ObScriptTyped

\* A new invite to a role of its company.
LEMMA InviteAdded ==
    ASSUME ObInv, NEW c \in Nat, NEW to \in ObUsers, NEW role \in Nat, NEW accepted \in BOOLEAN,
           OfCompany(obRoles, role, c),
           obInvites' = Append(obInvites, Invitation(c, to, role, accepted))
    PROVE  /\ obInvites' \in Seq(InviteDocs) /\ DOMAIN obInvites \subseteq DOMAIN obInvites'
           /\ \A i \in DOMAIN obInvites' :
                 OfCompany(obRoles, obInvites'[i].role, obInvites'[i].company)
<1> DEFINE new == Invitation(c, to, role, accepted)
<1>1. /\ obInvites \in Seq(InviteDocs)
      /\ \A i \in DOMAIN obInvites : OfCompany(obRoles, obInvites[i].role, obInvites[i].company)
  BY DEF ObInv, AllSettled, ObSettled
<1>2. new \in InviteDocs /\ OfCompany(obRoles, new.role, new.company)
  BY DEF Invitation, InviteDocs
<1> HIDE DEF new
<1>3. /\ obInvites' \in Seq(InviteDocs) /\ DOMAIN obInvites \subseteq DOMAIN obInvites'
      /\ \A i \in DOMAIN obInvites' :
            obInvites'[i] = IF i \in DOMAIN obInvites THEN obInvites[i] ELSE new
  BY <1>1, <1>2, ObAppend DEF new
<1> QED
  BY <1>1, <1>2, <1>3

\* Invites that change in place.
LEMMA InvitesKept ==
    ASSUME ObInv, DOMAIN obInvites' = DOMAIN obInvites,
           obInvites' = [i \in DOMAIN obInvites |-> obInvites'[i]],
           \A i \in DOMAIN obInvites :
               \/ obInvites'[i] = obInvites[i]
               \/ obInvites'[i] = [obInvites[i] EXCEPT !.gone = TRUE]
               \/ obInvites'[i] = [obInvites[i] EXCEPT !.expired = TRUE]
               \/ \E yes \in BOOLEAN : obInvites'[i] = [obInvites[i] EXCEPT !.accepted = yes]
    PROVE  /\ obInvites' \in Seq(InviteDocs)
           /\ \A i \in DOMAIN obInvites' :
                 OfCompany(obRoles, obInvites'[i].role, obInvites'[i].company)
<1>1. /\ obInvites \in Seq(InviteDocs)
      /\ \A i \in DOMAIN obInvites : OfCompany(obRoles, obInvites[i].role, obInvites[i].company)
  BY DEF ObInv, AllSettled, ObSettled
<1>2. ASSUME NEW i \in DOMAIN obInvites
      PROVE  /\ obInvites'[i] \in InviteDocs /\ obInvites'[i].role = obInvites[i].role
             /\ obInvites'[i].company = obInvites[i].company
  <2>1. obInvites[i] \in InviteDocs
    BY <1>1, ObElement
  <2> QED
    BY <2>1 DEF InviteDocs
<1> QED
  BY <1>1, <1>2, ObReplace

LEMMA FounderInviteKeeps == ASSUME ObInv, NEW p \in ObProcs, FounderInvite(p) PROVE ObInv'
<1> DEFINE r == obProc[p]
<1>1. Carries(r, obCompanies, obRoles, obInvites) /\ r.pc = "founderInvite"
  BY ObAtWork DEF FounderInvite
<1>2. OfCompany(obRoles, r.role, r.company)
  BY <1>1 DEF Carries, FounderSteps
<1>3. r.company \in Nat /\ r.role \in Nat /\ r.req.user \in ObUsers
  BY <1>1, RequestFields
<1>4. obInvites' = Append(obInvites, Invitation(r.company, r.req.user, r.role, TRUE))
  BY DEF FounderInvite
<1> HIDE DEF r
<1> QED
  BY <1>2, <1>3, <1>4, InviteAdded, OnInvites DEF FounderInvite, ObDone

LEMMA InsertInviteKeeps == ASSUME ObInv, NEW p \in ObProcs, InsertInvite(p) PROVE ObInv'
<1> DEFINE r == obProc[p]
<1>1. Carries(r, obCompanies, obRoles, obInvites) /\ r.pc = "insertInvite"
  BY ObAtWork DEF InsertInvite
<1>2. OfCompany(obRoles, r.req.id, r.tenant)
  BY <1>1 DEF Carries, RoleSteps
<1>3. r.tenant \in Nat /\ r.req.id \in Nat /\ r.req.to \in ObUsers
  BY <1>1, RequestFields
<1>4. obInvites' = Append(obInvites, Invitation(r.tenant, r.req.to, r.req.id, FALSE))
  BY DEF InsertInvite
<1> HIDE DEF r
<1> QED
  BY <1>2, <1>3, <1>4, InviteAdded, OnInvites DEF InsertInvite, ObDone

LEMMA DeleteInviteKeeps == ASSUME ObInv, NEW p \in ObProcs, DeleteInvite(p) PROVE ObInv'
<1>1. /\ DOMAIN obInvites' = DOMAIN obInvites
      /\ obInvites' = [i \in DOMAIN obInvites |-> obInvites'[i]]
      /\ \A i \in DOMAIN obInvites :
            obInvites'[i] = obInvites[i] \/ obInvites'[i] = [obInvites[i] EXCEPT !.gone = TRUE]
  BY DEF DeleteInvite
<1> QED
  BY <1>1, InvitesKept, OnInvites DEF DeleteInvite, ObDone

LEMMA SaveInviteKeeps == ASSUME ObInv, NEW p \in ObProcs, SaveInvite(p) PROVE ObInv'
<1> DEFINE r == obProc[p]
           new == [r EXCEPT !.pc = "userLeft"]
           yes == obInvites[r.invite].accepted \/ ~obInvites[r.invite].gone
<1>1. Carries(r, obCompanies, obRoles, obInvites) /\ r.pc \in {"saveBoth", "inviteLeft"}
  BY ObAtWork DEF SaveInvite
<1>2. /\ OfCompany(obRoles, r.role, r.company) /\ r.invite \in DOMAIN obInvites
      /\ "userLeft" \in ObSteps
  BY <1>1 DEF Carries, JoinSteps, ObSteps
<1>3. Carries(new, obCompanies, obRoles, obInvites)
  BY <1>1, <1>2, ObGoesOn DEF FounderSteps, JoinSteps, RoleSteps, NameSteps
<1>4. obInvites' = [obInvites EXCEPT ![r.invite] = [obInvites[r.invite] EXCEPT !.accepted = yes]]
  BY DEF SaveInvite
<1>5. yes \in BOOLEAN
  OBVIOUS
<1>6. obProc' = [obProc EXCEPT ![p] = new] \/ obProc' = [obProc EXCEPT ![p] = ObIdle]
  BY DEF SaveInvite, ObGo, ObDone
<1> HIDE DEF new, yes, r
<1>7. /\ DOMAIN obInvites' = DOMAIN obInvites
      /\ obInvites' = [i \in DOMAIN obInvites |-> obInvites'[i]]
      /\ \A i \in DOMAIN obInvites :
            obInvites'[i] = obInvites[i] \/ obInvites'[i] = [obInvites[i] EXCEPT !.accepted = yes]
  BY <1>4
<1>8. /\ obInvites' \in Seq(InviteDocs)
      /\ \A i \in DOMAIN obInvites' :
            OfCompany(obRoles, obInvites'[i].role, obInvites'[i].company)
  BY <1>5, <1>7, InvitesKept
<1>9. Carries(new, obCompanies, obRoles, obInvites')
  BY <1>3, <1>7 DEF Carries
<1> QED
  BY <1>6, <1>7, <1>8, <1>9, OnInvites DEF SaveInvite

LEMMA InviteExpiresKeeps == ASSUME ObInv, InviteExpires PROVE ObInv'
<1>1. /\ DOMAIN obInvites' = DOMAIN obInvites
      /\ obInvites' = [i \in DOMAIN obInvites |-> obInvites'[i]]
      /\ \A i \in DOMAIN obInvites :
            obInvites'[i] = obInvites[i] \/ obInvites'[i] = [obInvites[i] EXCEPT !.expired = TRUE]
  BY DEF InviteExpires
<1>2. /\ obInvites' \in Seq(InviteDocs)
      /\ \A i \in DOMAIN obInvites' :
            OfCompany(obRoles, obInvites'[i].role, obInvites'[i].company)
  BY <1>1, InvitesKept
<1>3. AllSettled'
  BY <1>2 DEF InviteExpires, ObInv, AllSettled, ObSettled
<1>4. AllCarry'
  BY <1>1 DEF InviteExpires, ObInv, AllCarry, Carries
<1>5. ObScriptTyped'
  BY DEF InviteExpires, ObInv, ObScriptTyped
<1> QED
  BY <1>3, <1>4, <1>5 DEF ObInv
-----------------------------------------------------------------------------
(* The theorems. *)

LEMMA ObInitInv == ObInit => ObInv
<1> SUFFICES ASSUME ObInit PROVE ObInv
  OBVIOUS
<1>1. PICK s \in ObScripts :
          /\ obUser = s.start.user /\ obCompanies = s.start.companies
          /\ obRoles = s.start.roles /\ obInvites = s.start.invites
          /\ obScript = [ops |-> s.ops, left |-> s.left, faults |-> s.faults]
  BY DEF ObInit
<1>2. AllSettled
  BY <1>1, ObAssumption DEF AllSettled
<1>3. ObScriptTyped
  BY <1>1, ObAssumption DEF ObScriptTyped
<1>4. AllCarry
  BY DEF ObInit, AllCarry
<1> QED
  BY <1>2, <1>3, <1>4 DEF ObInv

LEMMA ObNextInv == ObInv /\ [ObNext]_obVars => ObInv'
<1> SUFFICES ASSUME ObInv, [ObNext]_obVars PROVE ObInv'
  OBVIOUS
<1>1. CASE UNCHANGED obVars
  BY <1>1 DEF obVars, ObInv, AllSettled, ObScriptTyped, AllCarry
<1>2. ASSUME NEW p \in ObProcs,
             \/ ObArrive(p) \/ Permit(p) \/ ObFail(p) \/ LoadUser(p)
             \/ FindInvite(p) \/ FindInviteRole(p) \/ FindRole(p) \/ CheckName(p)
      PROVE  ObInv'
  BY <1>2, ObArriveKeeps, PermitKeeps, ObFailKeeps, LoadUserKeeps, FindInviteKeeps,
     FindInviteRoleKeeps, FindRoleKeeps, CheckNameKeeps
<1>3. ASSUME NEW p \in ObProcs,
             \/ MakeCompany(p) \/ MakeRoles(p) \/ InsertRole(p) \/ UpdateRole(p) \/ DeleteRole(p)
      PROVE  ObInv'
  BY <1>3, MakeCompanyKeeps, MakeRolesKeeps, InsertRoleKeeps, UpdateRoleKeeps, DeleteRoleKeeps
<1>4. ASSUME NEW p \in ObProcs,
             \/ SaveFounder(p) \/ SaveMember(p) \/ AssignRole(p)
             \/ FounderInvite(p) \/ SaveInvite(p) \/ InsertInvite(p) \/ DeleteInvite(p)
      PROVE  ObInv'
  BY <1>4, SaveFounderKeeps, SaveMemberKeeps, AssignRoleKeeps, FounderInviteKeeps,
     SaveInviteKeeps, InsertInviteKeeps, DeleteInviteKeeps
<1>5. CASE InviteExpires
  BY <1>5, InviteExpiresKeeps
<1> QED
  BY <1>1, <1>2, <1>3, <1>4, <1>5 DEF ObNext, ObStep

LEMMA ObInvTypes == ObInv => ObTypeOK
<1> SUFFICES ASSUME ObInv PROVE ObTypeOK
  OBVIOUS
<1>1. ASSUME NEW u \in ObUsers
      PROVE  obUser[u].company \in 0..obCompanies /\ obUser[u].role \in 0..Len(obRoles)
  <2>1. obCompanies \in Nat /\ obRoles \in Seq(RoleDocs) /\ DOMAIN obRoles = 1 .. Len(obRoles)
    BY DEF ObInv, AllSettled, ObSettled
  <2>2. CASE obUser[u].company = NoCompany
    BY <2>1, <2>2 DEF ObInv, AllSettled, ObSettled, NoCompany, NoRole
  <2>3. CASE OfCompany(obRoles, obUser[u].role, obUser[u].company)
    BY <2>1, <2>3, RoleFields DEF OfCompany, ObInv
  <2> QED
    BY <2>2, <2>3 DEF ObInv, AllSettled, ObSettled
<1>2. ASSUME NEW i \in DOMAIN obInvites
      PROVE  obInvites[i].to \in ObUsers /\ obInvites[i].role \in DOMAIN obRoles
  BY InviteFields DEF ObInv, OfCompany, InviteDocs
<1>3. ASSUME NEW p \in ObProcs, obProc[p] # ObIdle PROVE obProc[p].req.op \in ObOps
  BY <1>3, RequestFields DEF ObInv, AllCarry
<1> QED
  BY <1>1, <1>2, <1>3, RoleFields DEF ObTypeOK, ObInv, AllSettled, ObSettled

\* However founding, joining, inviting, assigning and deleting interleave, and
\* wherever they fail, a member of a company holds a role of that company and
\* every invite offers one of its own (companyController.ts, userController.ts).
THEOREM OnboardingRolesStayAtHome == ObSpec => []RolesStayAtHome
<1>1. ObInv => RolesStayAtHome
  BY DEF ObInv, AllSettled, ObSettled, RolesStayAtHome
<1> QED
  BY <1>1, ObInitInv, ObNextInv, PTL DEF ObSpec

\* Users, roles, invites and requests keep their types: no user names a company
\* or role that was never stored.
THEOREM OnboardingTypes == ObSpec => []ObTypeOK
BY ObInitInv, ObNextInv, ObInvTypes, PTL DEF ObSpec
=============================================================================

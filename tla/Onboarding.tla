------------------------------ MODULE Onboarding ------------------------------
(***************************************************************************)
(* Companies, invites, roles and the users who hold them:                  *)
(* companyController.ts, inviteController.ts, roleController.ts,           *)
(* userController.ts, behind requireAuth.ts, requirePermission.ts and the  *)
(* tenant plugin of the models.                                            *)
(*                                                                         *)
(* A request reads its user's company and role once, when it is            *)
(* authenticated, and works with that pair to its end.  A database call is *)
(* one step; between two of them the other requests go on.                 *)
(***************************************************************************)
EXTENDS Naturals, Sequences, FiniteSets

CONSTANTS
    ObUsers,    \* people with an account; an e-mail address is its user
    ObProcs,    \* requests under way
    ObScripts   \* bounds: what there is at first, the operations, how many follow,
                \* how many may fail

NoCompany == 0
NoRole == 0
ObOps == {"found", "join", "invite", "revoke", "newRole", "editRole", "dropRole", "assign"}

VARIABLES
    obUser,      \* each user's company and role
    obCompanies, \* companies created so far; an id is a number
    obRoles,     \* roles by id: of a company, named, system or not, granting, deleted or not
    obInvites,   \* invites by id: of a company, to a user, with a role
    obProc,      \* progress of each request
    obScript     \* what may still be asked and may still fail

obVars == <<obUser, obCompanies, obRoles, obInvites, obProc, obScript>>

ObRequest(op, user, company, id, to) ==
    [op |-> op, user |-> user, company |-> company, id |-> id, to |-> to]

\* What a user may send: a company code and an invite code, a role and a person.
ObRequests(op, user) ==
    CASE op \in {"found", "newRole"} -> {ObRequest(op, user, NoCompany, 0, user)}
      [] op = "join" -> {ObRequest(op, user, c, i, user) : c \in 1..obCompanies,
                                                          i \in DOMAIN obInvites}
      [] op = "revoke" -> {ObRequest(op, user, NoCompany, i, user) : i \in DOMAIN obInvites}
      [] op \in {"editRole", "dropRole"} ->
             {ObRequest(op, user, NoCompany, r, user) : r \in DOMAIN obRoles}
      [] op \in {"invite", "assign"} ->
             {ObRequest(op, user, NoCompany, r, to) : r \in DOMAIN obRoles, to \in ObUsers}

\* The collections; ObSettled says that what they hold fits together.
RoleDocs ==
    [company : Nat, name : {"Admin", "Member", "Viewer", "Clerk"}, system : BOOLEAN,
     grants : {"all", "some"}, gone : BOOLEAN]
InviteDocs ==
    [company : Nat, to : ObUsers, role : Nat, accepted : BOOLEAN, expired : BOOLEAN, gone : BOOLEAN]

OfCompany(roles, role, company) == role \in DOMAIN roles /\ roles[role].company = company

ObSettled(user, companies, roles, invites) ==
    /\ companies \in Nat
    /\ roles \in Seq(RoleDocs) /\ \A r \in DOMAIN roles : roles[r].company \in 1..companies
    /\ user \in [ObUsers -> [company : Nat, role : Nat]]
    /\ \A u \in ObUsers :
          IF user[u].company = NoCompany THEN user[u].role = NoRole
          ELSE OfCompany(roles, user[u].role, user[u].company)
    /\ invites \in Seq(InviteDocs)
    /\ \A i \in DOMAIN invites : OfCompany(roles, invites[i].role, invites[i].company)

\* What there is at first was stored by the same code.
ASSUME ObAssumption ==
    \A s \in ObScripts :
        /\ ObSettled(s.start.user, s.start.companies, s.start.roles, s.start.invites)
        /\ s.ops \subseteq ObOps /\ s.left \in Nat /\ s.faults \in Nat

ObIdle == [pc |-> "idle"]

ObAt(p, pc) == obProc[p].pc = pc
ObGo(p, pc) == obProc' = [obProc EXCEPT ![p].pc = pc]
ObDone(p) == obProc' = [obProc EXCEPT ![p] = ObIdle]
ObQuiet == UNCHANGED <<obUser, obCompanies, obRoles, obInvites, obScript>>

RoleOf(id, company) ==
    {r \in DOMAIN obRoles : r = id /\ ~obRoles[r].gone /\ obRoles[r].company = company}
NameTaken(company, name) ==
    \E r \in DOMAIN obRoles :
        ~obRoles[r].gone /\ obRoles[r].company = company /\ obRoles[r].name = name
NewRole(company, name, system, grants) ==
    [company |-> company, name |-> name, system |-> system, grants |-> grants, gone |-> FALSE]
-----------------------------------------------------------------------------
(* Before a handler runs.                                                  *)

\* requireAuth: the company and the role of the moment; createCompany and
\* joinCompany are for users without a company and ask for no permission.
ObArrive(p) ==
    /\ ObAt(p, "idle") /\ obScript.left > 0
    /\ \E op \in obScript.ops, user \in ObUsers : \E req \in ObRequests(op, user) :
          /\ obProc' = [obProc EXCEPT ![p] =
                 [pc |-> IF req.op \in {"found", "join"} THEN "loadUser" ELSE "permit",
                  req |-> req, tenant |-> obUser[req.user].company,
                  role |-> obUser[req.user].role, company |-> NoCompany, invite |-> 0]]
    /\ obScript' = [obScript EXCEPT !.left = @ - 1]
    /\ UNCHANGED <<obUser, obCompanies, obRoles, obInvites>>

\* requirePermission: the role must be one of that company and grant the action.
\* Of the permissions the model keeps those of an administrator and the others.
Permit(p) ==
    /\ ObAt(p, "permit")
    /\ IF \E r \in RoleOf(obProc[p].role, obProc[p].tenant) : obRoles[r].grants = "all"
       THEN ObGo(p, obProc[p].req.op)
       ELSE ObDone(p)
    /\ ObQuiet

\* Any database call may throw: the error handler answers and what was written stays.
ObFail(p) ==
    /\ ~ObAt(p, "idle") /\ obScript.faults > 0
    /\ obScript' = [obScript EXCEPT !.faults = @ - 1]
    /\ ObDone(p)
    /\ UNCHANGED <<obUser, obCompanies, obRoles, obInvites>>
-----------------------------------------------------------------------------
(* createCompany: the company, its three roles, the user, an accepted      *)
(* invite.                                                                 *)

LoadUser(p) ==
    /\ ObAt(p, "loadUser")
    /\ CASE obUser[obProc[p].req.user].company # NoCompany -> ObDone(p)
         [] OTHER -> ObGo(p, obProc[p].req.op)
    /\ ObQuiet

MakeCompany(p) ==
    /\ ObAt(p, "found")
    /\ obCompanies' = obCompanies + 1
    /\ obProc' = [obProc EXCEPT ![p].pc = "makeRoles", ![p].company = obCompanies + 1]
    /\ UNCHANGED <<obUser, obRoles, obInvites, obScript>>

MakeRoles(p) ==
    /\ ObAt(p, "makeRoles")
    /\ LET company == obProc[p].company
       IN  obRoles' = obRoles \o <<NewRole(company, "Admin", TRUE, "all"),
                                   NewRole(company, "Member", TRUE, "some"),
                                   NewRole(company, "Viewer", TRUE, "some")>>
    /\ obProc' = [obProc EXCEPT ![p].pc = "saveUser", ![p].role = Len(obRoles) + 1]
    /\ UNCHANGED <<obUser, obCompanies, obInvites, obScript>>

\* Both fields were null when the user was loaded, so both are written.
SaveFounder(p) ==
    /\ ObAt(p, "saveUser")
    /\ obUser' = [obUser EXCEPT ![obProc[p].req.user] =
           [company |-> obProc[p].company, role |-> obProc[p].role]]
    /\ ObGo(p, "founderInvite")
    /\ UNCHANGED <<obCompanies, obRoles, obInvites, obScript>>

Invitation(company, to, role, accepted) ==
    [company |-> company, to |-> to, role |-> role, accepted |-> accepted,
     expired |-> FALSE, gone |-> FALSE]

FounderInvite(p) ==
    /\ ObAt(p, "founderInvite")
    /\ obInvites' = Append(obInvites,
           Invitation(obProc[p].company, obProc[p].req.user, obProc[p].role, TRUE))
    /\ ObDone(p)
    /\ UNCHANGED <<obUser, obCompanies, obRoles, obScript>>
-----------------------------------------------------------------------------
(* joinCompany.                                                            *)

\* An open invite of that company to this user, with the code he sent.
FindInvite(p) ==
    /\ ObAt(p, "join")
    /\ LET req == obProc[p].req
           invite == obInvites[req.id]
       IN  IF /\ invite.company = req.company /\ invite.to = req.user
              /\ ~invite.accepted /\ ~invite.expired /\ ~invite.gone
           THEN obProc' = [obProc EXCEPT ![p].pc = "inviteRole", ![p].company = req.company,
                                         ![p].invite = req.id, ![p].role = invite.role]
           ELSE ObDone(p)
    /\ ObQuiet

FindInviteRole(p) ==
    /\ ObAt(p, "inviteRole")
    /\ IF RoleOf(obProc[p].role, obProc[p].company) # {} THEN ObGo(p, "saveBoth") ELSE ObDone(p)
    /\ ObQuiet

\* The two saves run side by side; one that fails does not undo the other, and
\* a deleted invite cannot be saved.
SaveMember(p) ==
    /\ ObAt(p, "saveBoth") \/ ObAt(p, "userLeft")
    /\ obUser' = [obUser EXCEPT ![obProc[p].req.user] =
           [company |-> obProc[p].company, role |-> obProc[p].role]]
    /\ IF ObAt(p, "saveBoth") THEN ObGo(p, "inviteLeft") ELSE ObDone(p)
    /\ UNCHANGED <<obCompanies, obRoles, obInvites, obScript>>

SaveInvite(p) ==
    /\ ObAt(p, "saveBoth") \/ ObAt(p, "inviteLeft")
    /\ obInvites' = [obInvites EXCEPT ![obProc[p].invite].accepted = @ \/ ~obInvites[obProc[p].invite].gone]
    /\ IF ObAt(p, "saveBoth") THEN ObGo(p, "userLeft") ELSE ObDone(p)
    /\ UNCHANGED <<obUser, obCompanies, obRoles, obScript>>
-----------------------------------------------------------------------------
(* Administration.                                                         *)

FindRole(p) ==
    /\ \E op \in {"invite", "assign", "dropRole"} :
          /\ ObAt(p, op)
          /\ LET found == RoleOf(obProc[p].req.id, obProc[p].tenant)
             IN  IF found = {} \/ (op = "dropRole" /\ \E r \in found : obRoles[r].system)
                 THEN ObDone(p)
                 ELSE ObGo(p, CASE op = "invite" -> "insertInvite"
                                [] op = "assign" -> "updateUser"
                                [] op = "dropRole" -> "deleteRole")
    /\ ObQuiet

InsertInvite(p) ==
    /\ ObAt(p, "insertInvite")
    /\ obInvites' = Append(obInvites,
           Invitation(obProc[p].tenant, obProc[p].req.to, obProc[p].req.id, FALSE))
    /\ ObDone(p)
    /\ UNCHANGED <<obUser, obCompanies, obRoles, obScript>>

DeleteInvite(p) ==
    /\ ObAt(p, "revoke")
    /\ obInvites' = [i \in DOMAIN obInvites |->
           IF i = obProc[p].req.id /\ obInvites[i].company = obProc[p].tenant
           THEN [obInvites[i] EXCEPT !.gone = TRUE]
           ELSE obInvites[i]]
    /\ ObDone(p)
    /\ UNCHANGED <<obUser, obCompanies, obRoles, obScript>>

\* Mutant: the user is looked up by id alone.
Anyone(tenant, user) == {user}

\* The user whose role is assigned must belong to the company.
Assignee(tenant, user) == {u \in {user} : obUser[u].company = tenant}

AssignRole(p) ==
    /\ ObAt(p, "updateUser")
    /\ LET chosen == Assignee(obProc[p].tenant, obProc[p].req.to)
       IN  obUser' = [u \in ObUsers |->
               IF u \in chosen THEN [obUser[u] EXCEPT !.role = obProc[p].req.id] ELSE obUser[u]]
    /\ ObDone(p)
    /\ UNCHANGED <<obCompanies, obRoles, obInvites, obScript>>

\* The name is looked up first; the unique index refuses what slipped past.
CheckName(p) ==
    /\ ObAt(p, "newRole")
    /\ IF NameTaken(obProc[p].tenant, "Clerk") THEN ObDone(p) ELSE ObGo(p, "insertRole")
    /\ ObQuiet

InsertRole(p) ==
    /\ ObAt(p, "insertRole")
    /\ \E grants \in {"all", "some"} :
          obRoles' = IF NameTaken(obProc[p].tenant, "Clerk") THEN obRoles
                     ELSE Append(obRoles, NewRole(obProc[p].tenant, "Clerk", FALSE, grants))
    /\ ObDone(p)
    /\ UNCHANGED <<obUser, obCompanies, obInvites, obScript>>

\* Any role of the company, a system one too, may get other permissions.  (The
\* new name, which the unique index checks, is left out.)
UpdateRole(p) ==
    /\ ObAt(p, "editRole")
    /\ \E grants \in {"all", "some"} :
          obRoles' = [r \in DOMAIN obRoles |->
              IF r \in RoleOf(obProc[p].req.id, obProc[p].tenant)
              THEN [obRoles[r] EXCEPT !.grants = grants] ELSE obRoles[r]]
    /\ ObDone(p)
    /\ UNCHANGED <<obUser, obCompanies, obInvites, obScript>>

DeleteRole(p) ==
    /\ ObAt(p, "deleteRole")
    /\ obRoles' = [obRoles EXCEPT ![obProc[p].req.id].gone = TRUE]
    /\ ObDone(p)
    /\ UNCHANGED <<obUser, obCompanies, obInvites, obScript>>

\* An invite is good for its days.  (Counted as a fault to bound it.)
InviteExpires ==
    /\ obScript.faults > 0
    /\ obScript' = [obScript EXCEPT !.faults = @ - 1]
    /\ \E i \in DOMAIN obInvites :
          /\ ~obInvites[i].expired /\ ~obInvites[i].accepted
          /\ obInvites' = [obInvites EXCEPT ![i].expired = TRUE]
    /\ UNCHANGED <<obUser, obCompanies, obRoles, obProc>>
-----------------------------------------------------------------------------
ObInit ==
    /\ \E s \in ObScripts :
          /\ obUser = s.start.user /\ obCompanies = s.start.companies
          /\ obRoles = s.start.roles /\ obInvites = s.start.invites
          /\ obScript = [ops |-> s.ops, left |-> s.left, faults |-> s.faults]
    /\ obProc = [p \in ObProcs |-> ObIdle]

ObStep(p) ==
    \/ ObArrive(p) \/ Permit(p) \/ ObFail(p) \/ LoadUser(p)
    \/ MakeCompany(p) \/ MakeRoles(p) \/ SaveFounder(p) \/ FounderInvite(p)
    \/ FindInvite(p) \/ FindInviteRole(p) \/ SaveMember(p) \/ SaveInvite(p)
    \/ FindRole(p) \/ InsertInvite(p) \/ DeleteInvite(p) \/ AssignRole(p)
    \/ CheckName(p) \/ InsertRole(p) \/ UpdateRole(p) \/ DeleteRole(p)

ObNext == (\E p \in ObProcs : ObStep(p)) \/ InviteExpires

ObSpec == ObInit /\ [][ObNext]_obVars
-----------------------------------------------------------------------------
(* Properties.                                                             *)

\* The stored documents and the requests have their types.
ObTypeOK ==
    /\ obCompanies \in Nat
    /\ \A u \in ObUsers : obUser[u].company \in 0..obCompanies /\ obUser[u].role \in 0..Len(obRoles)
    /\ \A r \in DOMAIN obRoles : obRoles[r].company \in 1..obCompanies
    /\ \A i \in DOMAIN obInvites :
          obInvites[i].to \in ObUsers /\ obInvites[i].role \in DOMAIN obRoles
    /\ \A p \in ObProcs : obProc[p] # ObIdle => obProc[p].req.op \in ObOps

\* Whatever founding, joining, assigning and deleting run side by side, a user of
\* a company holds a role of that company, and an invite offers one of its own
\* company: requirePermission reads the two as one pair.
RolesStayAtHome ==
    /\ \A u \in ObUsers :
          IF obUser[u].company = NoCompany THEN obUser[u].role = NoRole
          ELSE OfCompany(obRoles, obUser[u].role, obUser[u].company)
    /\ \A i \in DOMAIN obInvites : OfCompany(obRoles, obInvites[i].role, obInvites[i].company)
=============================================================================

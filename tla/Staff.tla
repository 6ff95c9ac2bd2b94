------------------------------- MODULE Staff -------------------------------
(***************************************************************************)
(* Who is on the staff: owners set roles at the console (setStaffRole),    *)
(* staff freeze and unfreeze accounts, and an operator runs the admin-role *)
(* script.  A handler is a process of the API; each of its awaits is a     *)
(* place where another one may run.                                        *)
(***************************************************************************)
EXTENDS FiniteSets

CONSTANTS
    User,       \* the accounts
    Founder,    \* those the script made owners before anybody used the console
    Nobody,     \* no account
    Editor,     \* handlers that change roles or freeze accounts
    Granted     \* the roles owners are asked to set

Role == {"USER", "VIEWER", "SUPPORT", "FINANCE", "OWNER"}

ASSUME StaffAssumption == Founder \subseteq User /\ Nobody \notin User /\ Granted \subseteq Role

UsersManage == {"SUPPORT", "FINANCE", "OWNER"}
AdjustmentsManage == {"FINANCE", "OWNER"}
StaffManage == {"OWNER"}

VARIABLES
    role,       \* User.role
    frozen,     \* the users with frozenAt set
    edit,       \* what each handler is doing: its next step, who asked, the target and the new role
    overtaken   \* history: role changes about to be written that another one came in front of

staffState == <<role, frozen, edit>>
staffVars == <<staffState, overtaken>>

NoEdit == [step |-> "idle", by |-> Nobody, on |-> Nobody, to |-> "USER"]

Owners == {u \in User : role[u] = "OWNER"}

\* The other accounts an adjustment of u could be approved by (hasSecondApprover counts them)
OtherApprovers(u) == {v \in User \ {u} : role[v] \in AdjustmentsManage /\ v \notin frozen}

StaffInit ==
    /\ role = [u \in User |-> IF u \in Founder THEN "OWNER" ELSE "USER"]
    /\ frozen = {}
    /\ edit = [p \in Editor |-> NoEdit]
    /\ overtaken = {}

Goto(p, s) == edit' = [edit EXCEPT ![p].step = s]
Leave(p) == edit' = [edit EXCEPT ![p] = NoEdit]

\* authenticate and requirePermission, then setStaffRole asks for the password
SetRole(p, u, v, r) ==
    /\ edit[p].step = "idle"
    /\ role[u] \in StaffManage /\ u # v
    /\ edit' = [edit EXCEPT ![p] = [step |-> "target", by |-> u, on |-> v, to |-> r]]
    /\ UNCHANGED <<role, frozen>>

\* The target is read: its role decides whether the owners are counted, its freeze is not looked at again
ReadTarget(p) ==
    /\ edit[p].step = "target"
    /\ LET v == edit[p].on
           r == edit[p].to
       IN IF role[v] = r \/ (r # "USER" /\ v \in frozen) THEN Leave(p)
          ELSE IF role[v] = "OWNER" THEN Goto(p, "count") ELSE Goto(p, "write")
    /\ UNCHANGED <<role, frozen>>

\* Mutant: an owner is demoted whoever is left
CountOwnersNever(p) == edit[p].step = "count" /\ Goto(p, "write") /\ UNCHANGED <<role, frozen>>

\* tx.user.count: the transaction goes on if there are two owners
CountOwners(p) ==
    /\ edit[p].step = "count"
    /\ IF \E u, v \in Owners : u # v THEN Goto(p, "write") ELSE Leave(p)
    /\ UNCHANGED <<role, frozen>>

WriteRole(p) ==
    /\ edit[p].step = "write"
    /\ role' = [role EXCEPT ![edit[p].on] = edit[p].to]
    /\ Leave(p)
    /\ UNCHANGED frozen

-----------------------------------------------------------------------------
\* freezeUser reads the target's role ...
Freeze(p, u, v) ==
    /\ edit[p].step = "idle"
    /\ role[u] \in UsersManage /\ u # v
    /\ role[v] = "USER"
    /\ edit' = [edit EXCEPT ![p] = [step |-> "freeze", by |-> u, on |-> v, to |-> "USER"]]
    /\ UNCHANGED <<role, frozen>>

\* ... and claims the freeze, whatever role the target has by then
WriteFreeze(p) ==
    /\ edit[p].step = "freeze"
    /\ frozen' = frozen \cup {edit[p].on}
    /\ Leave(p)
    /\ UNCHANGED role

Unfreeze(u, v) ==
    /\ role[u] \in UsersManage
    /\ v \in frozen
    /\ frozen' = frozen \ {v}
    /\ UNCHANGED <<role, edit>>

\* A refusal on the way (the password, the database), or the end of the process
LeaveEdit(p) == edit[p].step # "idle" /\ Leave(p) /\ UNCHANGED <<role, frozen>>

\* The admin-role script: grant makes an owner of anyone, revoke removes the last one too
Script(v, r) ==
    /\ role[v] # r
    /\ role' = [role EXCEPT ![v] = r]
    /\ UNCHANGED <<frozen, edit>>

StaffStep ==
    \/ \E p \in Editor : ReadTarget(p) \/ CountOwners(p) \/ WriteRole(p) \/ WriteFreeze(p) \/ LeaveEdit(p)
    \/ \E p \in Editor, u, v \in User : Freeze(p, u, v) \/ \E r \in Granted : SetRole(p, u, v, r)
    \/ \E u, v \in User : Unfreeze(u, v)
    \/ \E v \in User : \E r \in {"OWNER", "USER"} : Script(v, r)

\* The history: since a role change has last looked at the staff, an owner has lost the role, or the
\* target got it
Overtake ==
    overtaken' = {p \in Editor : /\ edit[p].step = "write" /\ edit'[p].step = "write"
                                 /\ p \in overtaken \/ Owners \ Owners' # {} \/ edit[p].on \in Owners' \ Owners}

StaffNext == StaffStep /\ Overtake

-----------------------------------------------------------------------------
StaffTypeOK ==
    /\ role \in [User -> Role]
    /\ frozen \subseteq User
    /\ edit \in [Editor -> [step : {"idle", "target", "count", "write", "freeze"},
                            by : User \cup {Nobody}, on : User \cup {Nobody}, to : Role]]
    /\ overtaken \subseteq Editor

\* "the last owner can't be demoted, so the console can never lock everyone out" (setStaffRole) is true
\* of role changes that nothing comes in front of: a role written at the console leaves the staff
\* without an owner only if, after its handler had counted the owners (or found that its target was
\* none), another role change or the script took the role from an owner or gave it to the target.  Two
\* owners who demote each other at once do lock everyone out; the comment knows of no exception.
LastOwnerKept == [][\A p \in Editor \ overtaken : WriteRole(p) /\ Owners # {} => Owners' # {}]_role
=============================================================================

------------------------------ MODULE Firewall ------------------------------
(***************************************************************************)
(* The firewall module (modules/firewall) and the Agent's UFW manager      *)
(* (internal/agent/firewall): requests that list the rules, check what     *)
(* they were asked for, and then run one ufw command after another.  A rule *)
(* is named by its position in the listing, IPv4 rules before IPv6 rules,  *)
(* and nothing holds the listing still between two commands.               *)
(***************************************************************************)
EXTENDS Naturals, Sequences, SequencesExt, FiniteSets

CONSTANTS Procs,         \* requests in progress
          Ports,
          Critical,      \* ports allowed before the firewall is switched on
          Guarded,       \* ports whose rules are not edited or deleted
          Requested,     \* rules a request may ask for: [port, act, src, fam]
          None,
          MaxOps, MaxFaults    \* bounds

VARIABLES rules,         \* external: ufw's tables, [v4, v6], of [port, act, src]
          active,        \* external: ufw is enabled
          pr,            \* the requests
          shown,         \* ghost: the entry a request named, as it was listed to it
          moved,         \* ghost: requests during which another one changed the rules
          last,          \* ghost: the latest deletion
          waived,        \* ghost: the panel's rule was given up, see PanelStaysReachable
          ops, faults

vars == <<rules, active, pr, shown, moved, last, waived, ops, faults>>

Idle == [op |-> None, pc |-> "idle"]
NoRules == [v4 |-> <<>>, v6 |-> <<>>]

Entries(t, seq) == [i \in 1..Len(seq) |-> [fam |-> t, port |-> seq[i].port, act |-> seq[i].act, src |-> seq[i].src]]

\* External: the numbers ufw gives its rules.
Numbered == Entries("v4", rules.v4) \o Entries("v6", rules.v6)

\* List: what ufw status numbered shows and parseUFWStatus makes of it; the source
\* of a rule is not parsed, and a firewall that is off shows none.
List == IF active THEN Numbered ELSE <<>>

\* External: ufw applies a rule to the tables its addresses belong to.
Tables(r) == IF r.src = "any" THEN {"v4", "v6"} ELSE {r.src}

\* External: a rule that is there already stays, one that differs in its action
\* only takes its place, any other goes to the end of its table.
Added(seq, r) ==
    LET e == [port |-> r.port, act |-> r.act, src |-> r.src]
        same == {i \in 1..Len(seq) : seq[i].port = e.port /\ seq[i].src = e.src}
    IN  IF same = {} THEN Append(seq, e) ELSE [seq EXCEPT ![CHOOSE i \in same : TRUE] = e]

\* External: ufw allow, deny or reject.
UfwAdd(r) == [t \in {"v4", "v6"} |-> IF t \in Tables(r) THEN Added(rules[t], r) ELSE rules[t]]

\* External: ufw delete, by number.
UfwDelete(id) ==
    LET n == Len(rules.v4) IN
    IF id <= n THEN [rules EXCEPT !.v4 = RemoveAt(@, id)]
    ELSE [rules EXCEPT !.v6 = RemoveAt(@, id - n)]

\* Ghost: every other request in progress now works from an old listing.
Stirred(p) == moved' = IF rules' = rules THEN moved
                       ELSE moved \cup {q \in Procs \ {p} : pr[q] # Idle}

-----------------------------------------------------------------------------
(* The handlers *)

Begin(p, o) ==
    /\ pr[p] = Idle /\ ops < MaxOps
    /\ pr' = [pr EXCEPT ![p] = o]
    /\ shown' = [shown EXCEPT ![p] = None] /\ moved' = moved \ {p}
    /\ ops' = ops + 1
    /\ UNCHANGED <<rules, active, last, waived, faults>>

Ops == {[op |-> "add", pc |-> "check", req |-> r] : r \in Requested}
       \cup {[op |-> "update", pc |-> "check", req |-> r, id |-> i] : r \in Requested, i \in 1..4}
       \cup {[op |-> "delete", pc |-> "check", id |-> i] : i \in 1..4}
       \cup {[op |-> "on", pc |-> "ensure", todo |-> Critical], [op |-> "off", pc |-> "toggle"],
             [op |-> "reset", pc |-> "reset"]}

End(p) == pr' = [pr EXCEPT ![p] = Idle]
Goto(p, pc) == pr' = [pr EXCEPT ![p].pc = pc]

\* sameRule: the listed source is empty and the listed family is never "both".
sameRule(e, r) == e.port = r.port /\ e.act = r.act /\ r.src = "any" /\ e.fam = r.fam

\* Mutant: no rule is protected.
NotGuarded(e) == FALSE

IsGuarded(e) == e.port \in Guarded

\* handleAdd: refused if an equivalent rule is listed.
handleAdd(p) ==
    /\ pr[p].op = "add" /\ pr[p].pc = "check"
    /\ IF \E i \in 1..Len(List) : sameRule(List[i], pr[p].req) THEN End(p) ELSE Goto(p, "add")
    /\ UNCHANGED <<rules, active, shown, moved, last, waived, ops, faults>>

\* handleUpdate: the rule must be there and not protected, and no other one equivalent.
handleUpdate(p) ==
    LET o == pr[p] IN
    /\ o.op = "update" /\ o.pc = "check"
    /\ IF \/ o.id > Len(List)
          \/ o.id <= Len(List) /\ IsGuarded(List[o.id])
          \/ \E i \in 1..Len(List) : i # o.id /\ sameRule(List[i], o.req)
       THEN End(p) /\ UNCHANGED shown
       ELSE Goto(p, "find") /\ shown' = [shown EXCEPT ![p] = List[o.id]]
    /\ UNCHANGED <<rules, active, moved, last, waived, ops, faults>>

\* handleDelete: protected rules are refused; when the listing fails, or the
\* firewall is off and lists nothing, the check is skipped.
handleDelete(p) ==
    LET o == pr[p] IN
    /\ o.op = "delete" /\ o.pc = "check"
    /\ \/ /\ IF o.id <= Len(List) /\ IsGuarded(List[o.id]) THEN End(p) ELSE Goto(p, "del")
          /\ shown' = [shown EXCEPT ![p] = IF o.id <= Len(List) THEN List[o.id] ELSE None]
          /\ UNCHANGED faults
       \/ /\ faults < MaxFaults /\ faults' = faults + 1
          /\ Goto(p, "del") /\ UNCHANGED shown
    /\ UNCHANGED <<rules, active, moved, last, waived, ops>>

-----------------------------------------------------------------------------
(* The Agent *)

\* updateRule looks the rule up again.
updateRule(p) ==
    /\ pr[p].pc = "find"
    /\ IF pr[p].id <= Len(List) THEN Goto(p, "add") ELSE End(p)
    /\ UNCHANGED <<rules, active, shown, moved, last, waived, ops, faults>>

\* addRule; an update goes on to the deletion of the rule it replaces.
addRule(p) ==
    LET o == pr[p] IN
    /\ o.pc = "add"
    /\ rules' = UfwAdd(o.req) /\ Stirred(p)
    /\ IF o.op = "update" THEN Goto(p, "del") ELSE End(p)
    /\ waived' = (waived \/ (o.req.port \in Guarded /\ o.req.act # "allow"))
    /\ UNCHANGED <<active, shown, last, ops, faults>>

\* Mutant: the rule after the one named.
NextRule(id) == id + 1

\* DeleteRule passes the number on as it is.
RuleNumber(id) == id

\* DeleteRule, by number: whatever now has it.  ufw refuses a number it does not list.
DeleteRule(p) ==
    LET o == pr[p]
        id == RuleNumber(o.id) IN
    /\ o.pc = "del"
    /\ IF id > Len(Numbered)
       THEN /\ IF o.op = "update" THEN Goto(p, "rollback") ELSE End(p)
            /\ UNCHANGED <<rules, moved, last, waived>>
       ELSE /\ rules' = UfwDelete(id) /\ Stirred(p)
            /\ last' = [got |-> Numbered[id], named |-> shown[p], alone |-> p \notin moved,
                        req |-> IF o.op = "update" THEN o.req ELSE None]
            /\ waived' = (waived \/ p \in moved \/ (active /\ shown[p] = None))
            /\ End(p)
    /\ UNCHANGED <<active, shown, ops, faults>>

\* A ufw command fails.
CommandFails(p) ==
    LET o == pr[p] IN
    /\ o.pc \in {"add", "del", "ensure", "toggle", "reset", "rollback", "undo"}
    /\ faults < MaxFaults /\ faults' = faults + 1
    /\ CASE o.pc = "del" /\ o.op = "update" -> Goto(p, "rollback")
         [] o.pc = "ensure" /\ o.todo # {} ->
               \E q \in o.todo : pr' = [pr EXCEPT ![p].todo = @ \ {q}]
         [] OTHER -> End(p)
    /\ waived' = (waived \/ o.pc = "ensure")
    /\ UNCHANGED <<rules, active, shown, moved, last, ops>>

\* deleteMatchingReplacement: the last rule listed with the replacement's port and
\* action, whatever its source.
deleteMatchingReplacement(p) ==
    LET o == pr[p]
        hits == {i \in 1..Len(List) : i # o.id /\ List[i].port = o.req.port /\ List[i].act = o.req.act}
    IN
    /\ o.pc = "rollback"
    /\ IF hits = {} THEN End(p)
       ELSE pr' = [pr EXCEPT ![p].pc = "undo", ![p].id = CHOOSE i \in hits : \A j \in hits : j <= i]
    /\ UNCHANGED <<rules, active, shown, moved, last, waived, ops, faults>>

Undo(p) ==
    LET o == pr[p] IN
    /\ o.pc = "undo"
    /\ IF o.id > Len(Numbered) THEN UNCHANGED rules ELSE rules' = UfwDelete(o.id)
    /\ waived' = (waived \/ (o.id <= Len(Numbered) /\ Numbered[o.id].port \in Guarded))
    /\ Stirred(p) /\ End(p)
    /\ UNCHANGED <<active, shown, last, ops, faults>>

\* Mutant: the firewall is switched on first.
ToggleFirst(o) == o.pc = "ensure"

\* The critical ports come first, one command each.
Ensured(o) == o.pc = "ensure" /\ o.todo = {}

ensureCriticalPorts(p) ==
    LET o == pr[p] IN
    /\ o.pc = "ensure"
    /\ \E q \in o.todo :
          /\ rules' = UfwAdd([port |-> q, act |-> "allow", src |-> "any"])
          /\ pr' = [pr EXCEPT ![p].todo = @ \ {q}]
    /\ Stirred(p)
    /\ UNCHANGED <<active, shown, last, waived, ops, faults>>

\* Toggle, and the two looks at the status that follow.
Toggle(p) ==
    LET o == pr[p] IN
    /\ Ensured(o) \/ o.pc = "toggle"
    /\ active' = (o.op = "on") /\ End(p)
    /\ waived' = (waived \/ (o.op = "on" /\ p \in moved))
    /\ UNCHANGED <<rules, shown, moved, last, ops, faults>>

\* Reset: ufw drops its rules and switches itself off.
Reset(p) ==
    /\ pr[p].pc = "reset"
    /\ rules' = NoRules /\ active' = FALSE
    /\ Stirred(p) /\ End(p)
    /\ UNCHANGED <<shown, last, waived, ops, faults>>

-----------------------------------------------------------------------------

Init ==
    /\ rules = NoRules /\ active = FALSE
    /\ pr = [p \in Procs |-> Idle] /\ shown = [p \in Procs |-> None]
    /\ moved = {} /\ last = None /\ waived = FALSE /\ ops = 0 /\ faults = 0

Next ==
    \E p \in Procs :
        \/ \E o \in Ops : Begin(p, o)
        \/ handleAdd(p) \/ handleUpdate(p) \/ handleDelete(p)
        \/ updateRule(p) \/ addRule(p) \/ DeleteRule(p) \/ CommandFails(p)
        \/ deleteMatchingReplacement(p) \/ Undo(p)
        \/ ensureCriticalPorts(p) \/ Toggle(p) \/ Reset(p)

Spec == Init /\ [][Next]_vars

-----------------------------------------------------------------------------

TypeOK ==
    /\ active \in BOOLEAN /\ moved \subseteq Procs
    /\ \A t \in {"v4", "v6"} : \A i \in 1..Len(rules[t]) : rules[t][i].port \in Ports

\* Once the firewall was switched on through the module, every guarded port stays
\* open over IPv4, through any order of additions, edits, deletions and switching
\* off and on by several operators.  What gives it up is an explicit rule against
\* the port, a deletion whose check saw no listing, a warning that was ignored while the ports
\* were opened, the rollback of an edit, or a number that no longer meant
\* the rule it was listed for.
PanelStaysReachable ==
    active /\ ~waived =>
        \A q \in Guarded : \E i \in 1..Len(rules.v4) :
            rules.v4[i] = [port |-> q, act |-> "allow", src |-> "any"]

\* A deletion removes the rule that was listed under the number, if no other
\* request changed the rules in between; so does an edit of an IPv4 rule that
\* changes more than its action.
RemovesWhatWasShown ==
    (/\ last # None /\ last.alone /\ last.named # None
     /\ last.req # None => /\ last.named.fam = "v4"
                           /\ <<last.req.port, last.req.src>> # <<last.named.port, last.named.src>>)
    => last.got = last.named
=============================================================================

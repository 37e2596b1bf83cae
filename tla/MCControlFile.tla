---------------------------- MODULE MCControlFile ----------------------------
(***************************************************************************)
(* Small instances of ControlFile.  The lines a and b are unrelated; ab    *)
(* begins with a, as the domain name example.com.au begins with            *)
(* example.com.                                                            *)
(***************************************************************************)
EXTENDS ControlFile

CONSTANTS p1, p2, p3

a == <<"a">>
b == <<"b">>
ab == <<"a", "b">>
c == <<"c">>

Lines == {a, b, ab, c}
Two == {p1, p2}
Three == {p1, p2, p3}

\* One edit of one of two lines of which none begins the other.
Apart == {a, b}
Edits == [op : Ops \ {"create"}, line : Apart]

\* Every process makes one edit.
OneEach == {[p \in Proc |-> <<f[p]>>] : f \in [Proc -> Edits]}

Add(l) == [op |-> "update", line |-> l]
Rem(l) == [op |-> "remove", line |-> l]
RemAll(l) == [op |-> "removeall", line |-> l]
Mk == [op |-> "create", line |-> a]

\* add_domain_assign() twice and a removal, in three processes.
AssignRace == {(p1 :> <<Mk, Add(a)>>) @@ (p2 :> <<Mk, Add(b)>>) @@ (p3 :> <<e>>) :
                 e \in {Rem(a), Add(ab)}}

\* Two vadddomain, and a vdeldomain of a third domain.
AddAddDel == {(p1 :> <<Add(a)>>) @@ (p2 :> <<Add(b)>>) @@ (p3 :> <<RemAll(c)>>)}

AssignFiles == {<<Dot>>, <<a, Dot>>, <<a, b, Dot>>}
FileC == {<<c>>}
AnyFile == {NoFile, <<a, Dot>>}

(***************************************************************************)
(* Leaving out lines by their positions is what the loops of the library   *)
(* do line by line, for every file of up to three lines.                   *)
(***************************************************************************)
ASSUME KeepIsSelectSeq ==
  \A s \in BoundedSeq(Lines \cup {Dot}, 3) :
    /\ Body(s) = SelectSeq(s, LAMBDA l : l # Dot)
    /\ \A t \in Lines :
         /\ remove_line(s, t, "remove") = RemoveFirstMatch(s, LAMBDA l : Matches(l, t))
         /\ remove_line(s, t, "removeall") = SelectSeq(s, LAMBDA l : ~Matches(l, t))
         /\ remove_line(s, t, "removep") = SelectSeq(s, LAMBDA l : ~MatchesPartly(l, t))
=============================================================================

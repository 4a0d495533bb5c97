------------------------------- MODULE MCNcd -------------------------------
(* Instances of Ncd for TLC. *)
EXTENDS Ncd, TLC

CONSTANTS a, sub, e, one, two

MCUpper == [n \in {a, sub, e} |-> n]
MCOrder == <<a, sub, e>>
MCBin   == <<sub>>
MCTree  == (<<a>> :> <<two>>) @@ (<<sub>> :> Dir) @@ (<<sub, sub>> :> Dir)
           @@ (<<sub, sub, a>> :> <<one, two>>)

Line(prog, src, dst) == [prog |-> prog, src |-> src, dst |-> dst]
MCCommands ==
    {Line("cp", Rel(a), Rel(e)), Line("cp", Rel(sub), Rel(e)),
     Line("cp -r", Abs(<<sub>>), Abs(<<e>>)),
     Line("mv", Abs(<<sub, sub>>), Abs(<<e>>)), Line("mv", Rel(a), Abs(<<e, a>>)),
     Line("mv", Rel(a), Rel(e)), Line("mv", Rel(a), Abs(<<sub, a>>)),
     Line("cp", Rel(a), Abs(<<a>>)), Line("mv", Rel(a), Abs(<<sub, sub, a>>)),
     Line("rm", Rel(a), Rel(a)), Line("rm -r", Rel(sub), Rel(sub))}
=============================================================================

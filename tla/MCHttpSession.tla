--------------------------- MODULE MCHttpSession ---------------------------
(***************************************************************************)
(* HttpSession for TLC.  States that no step can tell apart are explored   *)
(* once: a revision is only ever asked whether it is the provider's        *)
(* current one (a probe and its question have the same), and a token that  *)
(* no storage, question or operation holds is never seen again.            *)
(***************************************************************************)
EXTENDS HttpSession, TLC

Current(rev) == rev = counter
Seen(ask) == [ask EXCEPT !.checked = Current(@)]

Held ==
    {shared, own} \cup {ask.token : ask \in c.late}
        \cup (IF c.probe = NoProbe THEN {} ELSE {c.probe.ask.token})
        \cup (IF op = NoOp THEN {} ELSE {op.token})

View ==
    <<[c EXCEPT !.applied = Current(@),
                !.late = {Seen(ask) : ask \in @},
                !.probe = IF @ = NoProbe THEN @
                          ELSE [@ EXCEPT !.rev = Current(@), !.ask = Seen(@)]],
      shared, own, events, outside,
      IF op = NoOp THEN op ELSE [op EXCEPT !.rev = Current(@)],
      Minted, [t \in Held \cap Tokens |-> ownerOf[t]],
      live \cap Held, dead \cap Held, told>>

Symmetry == Permutations(Users)
=============================================================================

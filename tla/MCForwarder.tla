---------------------------- MODULE MCForwarder ----------------------------
(***************************************************************************)
(* Instances of Forwarder for TLC: a consumer face, an upstream and an     *)
(* application that runs a function.                                       *)
(***************************************************************************)
EXTENDS Forwarder, TLC

CONSTANTS consumer, upstream, app, noFace

MCFace == {consumer, upstream, app}
Upstreams == {upstream, app}
Downstreams == {consumer, app}
UpstreamOnly == {upstream}
MCLocal == {app}
AllP2p == [f \in MCFace |-> "p2p"]
MixedLinks == [f \in MCFace |-> IF f = app THEN "ad-hoc" ELSE "p2p"]

\* 10 is a content name, 12 a function name.
Req(name, func, nonce, life) ==
  [name |-> name, func |-> func, cbp |-> FALSE, mbf |-> FALSE, nonce |-> nonce,
   life |-> life, hop |-> NoHopLimit, hint |-> << >>, nextHop |-> noFace]
Dat(name, func, digest, fresh) ==
  [name |-> name, func |-> func, digest |-> digest, fresh |-> fresh]

\* One Interest and its retransmissions.
RetxInterest == {Req(<<10>>, << >>, 1, 2), Req(<<10>>, << >>, 2, 1)}
RetxData == {Dat(<<10>>, << >>, 1, 0)}

\* The same content, plain and with the function, and a content whose name
\* spells the two.
ChainInterest == {Req(<<10>>, << >>, 1, 1), Req(<<10>>, <<12>>, 1, 1), Req(<<10, 12>>, << >>, 2, 1)}
ChainData == {Dat(<<10>>, << >>, 1, 1), Dat(<<10>>, <<12>>, 2, 1), Dat(<<10, 12>>, << >>, 3, 0)}

\* The same with selectors, hop limits, hints, tags and scopes.
OptionInterest == ChainInterest \cup
  {[Req(<<10>>, << >>, 2, 1) EXCEPT !.cbp = TRUE, !.hop = 1],
   [Req(<<10>>, << >>, 1, 0) EXCEPT !.hop = 0],
   [Req(<<10>>, << >>, 3, 1) EXCEPT !.mbf = TRUE, !.hint = << <<20>>, <<21>> >>],
   [Req(<<Localhost, 10>>, << >>, 1, 1) EXCEPT !.hop = 2],
   [Req(<<Localhost, 10>>, << >>, 2, 1) EXCEPT !.nextHop = upstream],
   Req(<<Localhost>>, <<10>>, 3, 1)}
OptionData == ChainData \cup {Dat(<<Localhost, 10>>, << >>, 4, 0)}

NoRegion == {}
Region21 == {<<21, 22>>}
RootPrefix == {<< >>}
ChainPrefixes == {<<10>>, <<12>>}
OneCost == {1}

\* Initial FIBs.
RetxFib == {<< >> :> (upstream :> 1), << >> :> (upstream :> 1 @@ app :> 2)}
ChainFib == {<<10>> :> (upstream :> 1) @@ <<12>> :> (app :> 1)}
OptionFib == ChainFib \cup {<< >> :> (upstream :> 1 @@ app :> 1), <<21>> :> (upstream :> 1)}
=============================================================================

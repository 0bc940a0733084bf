-------------------------- MODULE MCSessionTurns ---------------------------
(* Small instances of one session. *)
EXTENDS SessionTurns

Text(s) == [from |-> s, kind |-> "text"]
Photo(s) == [from |-> s, kind |-> "photo"]
Queue(s) == [from |-> s, kind |-> "queue"]

\* Ordinary traffic: the third sender, a photo overtaking a text, more /queue
\* items than the depth cap lets through.
Alone == {<<Text("a"), Text("b"), Text("c"), Text("a")>>,
          <<Text("a"), Text("a"), Text("a")>>,
          <<Text("a"), Photo("a"), Text("b")>>,
          <<Text("a"), Text("a"), Queue("a"), Queue("a")>>,
          <<Text("a"), Queue("a"), Queue("b"), Queue("a")>>} \X {<<>>}

\* The same, interrupted.
Commanded == {<<<<Text("a"), Photo("a"), Text("b")>>, <<"stop">>>>,
              <<<<Text("a"), Text("b"), Text("b")>>, <<"new">>>>,
              <<<<Text("a"), Queue("a"), Queue("a")>>, <<"stop">>>>,
              <<<<Text("a"), Queue("a"), Queue("a")>>, <<"new">>>>,
              <<<<Text("a"), Text("a")>>, <<"stop", "new">>>>}

AllScenarios == Alone \union Commanded

=============================================================================

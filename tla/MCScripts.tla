----------------------------- MODULE MCScripts ------------------------------
(* Instance of Scripts: three scripts, one variable.                       *)
EXTENDS Scripts

CONSTANTS s1, s2, s3, v, x, y, p, q

MCScript == {s1, s2, s3}
MCName == {v}

Program(a, b, c, da, db, dc) ==
    [cmd_lines |-> (s1 :> a @@ s2 :> b @@ s3 :> c),
     line |-> (s1 :> da @@ s2 :> db @@ s3 :> dc)]

MCPrograms ==
    { \* what is shared is used after something was received, or at once
      Program(<<Assign(v, x), Share(v), Sync>>, <<Assign(v, y), Pending, Recv(p), Send(v)>>,
              <<Assign(v, y), Pending, Send(v)>>, <<>>, <<p>>, <<>>),
      \* two steps
      Program(<<Assign(v, y), Sync, Pending, Ignore(q), Recv(p), Send(v), Flush>>,
              <<Pending, Assign(v, x), Share(v), Sync>>,
              <<Pending, Pending>>, <<q, p>>, <<>>, <<>>),
      \* received in any order; something else is received
      Program(<<Recv(p), Recv(q), Sync>>, <<Pending, Recv(p)>>, <<>>,
              <<q, p>>, <<q>>, <<>>),
      \* two scripts do the same step
      Program(<<Sync, Pending>>, <<Sync, Sync>>, <<>>, <<>>, <<>>, <<>>),
      \* an IGNORE stands for itself
      Program(<<Ignore(p)>>, <<>>, <<>>, <<p>>, <<>>, <<>>) }

=============================================================================

----------------------------- MODULE MCFileOps -----------------------------
\* FileOps with every text of up to three characters in a file of pages of two, and
\* paths that are relative, absolute, without a directory, one the other's directory,
\* and with a name that is taken for ".."; a link in a directory of a directory.
EXTENDS FileOps

SomeContents == UNION {[1 .. n -> {"x", "newline"}] : n \in 0 .. 3}

SomePaths ==
  { <<"a">>, <<"/", "a">>, <<"a", "/", "b">>, <<"a", "/", "a", "/", "b">>, <<"a", "/", "o">>,
    <<"/", "a", "/", "b">>, <<"/", "a", "/", "b", "/", "a">> }

SomeLinks == { <<"a", "/", "a", "/", "a">> }

SomeTops == { <<"a">>, <<"/", "a">> }
=============================================================================

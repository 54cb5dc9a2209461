------------------------------ MODULE MCPrograms ------------------------------
\* Values for TLC's run of Programs.
EXTENDS Programs

\* Every operator and every kind of line; three that leave the sign of `&`, `|` or
\* `>` where `|` and `>` then find it.
MCLines == {<<>>, <<"exit">>, <<"cd">>, <<"cd", "-">>, <<"cd", "h">>, <<"cd", "s">>, <<"cd", "hud">>,
          <<"a">>, <<"a", "&">>, <<"a", "<", "f">>, <<"a", ">", "f">>, <<"a", ">>", "f">>,
          <<"a", "|", "b">>, <<"a", "|", "b", "&">>, <<"a", "|", "b", "|", "c">>,
          <<"a", "|", "b", ">", "g">>, <<"a", "|", "b", ">>", "g">>,
          <<"a", "&", "b", "&&", "c", "&", "d", "&">>, <<"a", "&", "b", "&", "c", "&", "d", "|", "e">>,
          <<"a", "&", "b", "&", "c", "&", "d", ">", "g">>}

\* A parent; its child, whose name goes on where the parent's ends and where the
\* shell starts; and a name too long to be stored.
MCHome == "hu"
MCDirs == {MCHome, "h", "s", "hud"}
MCName == [d \in MCDirs |->
    CASE d = "h" -> <<"h">> [] d = "hu" -> <<"h", "u">> [] d = "hud" -> <<"h", "u", "d">>
      [] OTHER -> <<"s">>]

\* Three directories that overrun the table together and no two of them; two sizes alike.
MCDirectories == [d \in {".", "sub", "big"} |->
    CASE d = "." -> {"a", "b"} [] d = "sub" -> {"c"} [] OTHER -> {"d", "e"}]
MCSize == [f \in {"a", "b", "c", "d", "e"} |->
            CASE f \in {"a", "c", "e"} -> 2 [] f = "b" -> 3 [] OTHER -> 1]
==============================================================================

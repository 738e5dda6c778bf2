----------------------------- MODULE MCLogFiles -----------------------------
(***************************************************************************)
(* A definition without a path, whose logs are found, and one with a path, *)
(* which is searched for its own path.                                     *)
(***************************************************************************)
EXTENDS LogFiles

MCFiles == {"a", "b", "nested"}
MCPlace == [f \in MCFiles |-> IF f = "nested" THEN <<<<"x", "y">>, "y">>
                              ELSE <<<<"/var/log">>, "*.log">>]
MCStats == {[size |-> 1, uid |-> 1, gid |-> 1, mode |-> BitsOf(\o600)],
            [size |-> 5, uid |-> 0, gid |-> 0, mode |-> BitsOf(\o7000)]}
MCUsers == [n \in {"root", "syslog"} |-> IF n = "root" THEN 0 ELSE 1]
MCGroups == [n \in {"root", "adm"} |-> IF n = "root" THEN 0 ELSE 1]

Define(name, path, maxSize, user, group, mode) ==
    [name |-> name, path |-> path, maxSize |-> maxSize, user_name |-> user,
     group_name |-> group, mode |-> mode, regexes |-> {}]
Mode(digits, mask) == [kind |-> "numeric", digits |-> digits, mask |-> mask]
ModeLetters(who, op, perms) ==
    [kind |-> "letters", who |-> who, op |-> op, perms |-> perms]
NoMode == [kind |-> "none"]

MCConfigurations == {
    <<Define("all", <<>>, 2, "syslog", "root", Mode(<<6, 0, 0>>, <<6, 6, 6>>)),
      Define("path", <<"x", "y">>, 4, "unknown", "adm", Mode(<<6, 0, 0>>, <<>>))>>,
    <<Define("path", <<"x", "y">>, 0, "", "", NoMode),
      Define("letters", <<>>, 0, "", "", ModeLetters({"u"}, "+", {"r", "w"}))>>,
    <<Define("no-write", <<>>, 9, "", "", ModeLetters({"g", "o"}, "-", {"w"})),
      Define("exact", <<>>, 9, "", "", ModeLetters({}, "=", {"s", "t"}))>>,
    <<Define("same", <<>>, 0, "", "", NoMode),
      Define("same", <<>>, 0, "", "", NoMode)>>,
    <<Define("lone", <<>>, 0, "", "", ModeLetters({"u"}, "none", {}))>>,
    <<>> }

=============================================================================

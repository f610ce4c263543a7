------------------------------ MODULE MCSession ------------------------------
(* A small instance of Session for TLC. *)
EXTENDS Session

(* "./", "./bin/", "./bin/ls", "./bin/d/", "./d/" and "./e/f", a file whose
   directory is not listed. *)
Dir(path) == [path |-> path, type |-> "dir", size |-> 0]
File(path, size) == [path |-> path, type |-> "file", size |-> size]
SmallArchive ==
    {Dir(<<".", "">>), Dir(<<".", "bin", "">>), Dir(<<".", "bin", "d", "">>), Dir(<<".", "d", "">>),
     File(<<".", "bin", "ls">>, 700), File(<<".", "e", "f">>, 512)}

(* Another one, with a file that is empty. *)
SomeArchives == {SmallArchive, {Dir(<<".", "">>), Dir(<<".", "d", "">>), File(<<".", "d", "f">>, 0)}}

(* "d", "./d", "/d/", "/bin/d", "ls", "/", "" , "./", "bin//d" and "nope". *)
SomePaths ==
    {<<"d">>, <<".", "d">>, <<"", "d", "">>, <<"", "bin", "d">>, <<"ls">>,
     Root, <<"">>, <<".", "">>, <<"bin", "", "d">>, <<"nope">>}

SomeSettings ==
    {[key |-> "HOME", val |-> <<<<"", "d">>>>],
     [key |-> "PWD", val |-> <<<<"", "nope">>>>],
     [key |-> "PWD", val |-> <<<<"bin", "d">>>>],
     [key |-> "PATH", val |-> <<<<"">>>>],
     [key |-> "PATH", val |-> <<<<"", "d">>, <<"", "bin">>>>]}

(* One with a variable that is set twice. *)
SomeEnvironments ==
    {<<>>,
     <<[key |-> "PWD", val |-> <<<<"bin", "d">>>>],
       [key |-> "HOME", val |-> <<<<"", "d">>>>],
       [key |-> "PWD", val |-> <<<<"", "nope">>>>]>>}

(* The last one does not fit in a page. *)
SomeArgvs == {<<>>, <<[arg |-> "ls", size |-> 2], [arg |-> "", size |-> 0],
                      [arg |-> "d", size |-> 1]>>,
              <<[arg |-> "long", size |-> 4090]>>}
=============================================================================

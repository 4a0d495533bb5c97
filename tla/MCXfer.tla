------------------------------ MODULE MCXfer ------------------------------
EXTENDS XferLink

CONSTANTS a, b, file1, file2, sub

Job(op, body) == [op |-> op, body |-> body]

\* Two files in sub, a longer one in the root: the volume of six clusters is full
\* until that one is renamed and deleted.
MCStored == [x \in {Root, sub} |-> [n \in {file1, file2} |->
    IF x = sub THEN <<b>> ELSE IF n = file2 THEN <<b, b, b>> ELSE None]]

MCJobs == {[op |-> T_OPEN, body |-> <<None, file1>>, content |-> <<b, a>>],
           Job(T_GET, <<None, file1>>), Job(T_LIST, sub),
           Job(T_DEL, <<None, file1>>), Job(T_MKDIR, sub), Job(T_RMD, sub),
           Job(T_REN, <<file2, file1>>), Job(T_PREAD, <<None, file1, 1>>),
           Job(T_PWRITE, <<None, file1, 0, b>>), Job(T_PWRITE, <<None, file1, 3, a>>),
           Job(T_QUIT, None)}
=============================================================================

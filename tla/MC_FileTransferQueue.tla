------------------------ MODULE MC_FileTransferQueue --------------------------
EXTENDS FileTransferQueue, TLC

CONSTANTS a1, a2, a3, b1, undef

\* Three own files, one of them rejected by validation: a batch can mix
\* valid and invalid files, and a valid file can wait in the queue behind
\* an upload.
MC_OwnFiles == {a1, a2, a3}
MC_Invalid == {a3}

\* One upload by another participant, announced by file_uploaded.
MC_OtherFiles == {b1}

\* The load of updateUI and one more (a refresh timer, file_uploaded or
\* the files tab): two requests are what responses out of order need.
MC_MaxLoads == 2

=============================================================================

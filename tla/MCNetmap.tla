------------------------------ MODULE MCNetmap ------------------------------
EXTENDS Netmap

CONSTANT NBuf

\* Buffer n is the n-th one netmap hands out: w_iovs, then TX and RX slots.
MCBuf == 1 .. NBuf
MCInitBuf ==
    [h \in Holder |->
       CASE h[1] = "iov" -> h[2]
         [] h[1] = "tx"  -> NBufs + h[2] * TxN + h[3] + 1
         [] h[1] = "rx"  -> NBufs + NTx * TxN + h[2] * RxN + h[3] + 1]

ASSUME NBuf = NBufs + NTx * TxN + NRx * RxN

\* Indices only matter up to renaming: a state is told apart by which holders
\* store equal indices, and by who holds the buffer of each v->base and orig.
\* No step reads v->base: IdxView is enough for properties that do not either.
HolderOf(b) == {h \in Holder : bidx[h] = b}
IdxView == <<{HolderOf(b) : b \in Buf}, HolderOf(wait.orig), wait.v, wait.slot,
             wait.synced, ringVars, syncVars, btail, hwdone, rxVars, queVars,
             txVars, nicrx>>
View == <<IdxView, [v \in Iov |-> HolderOf(base[v])]>>
=============================================================================

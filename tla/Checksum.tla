------------------------------ MODULE Checksum ------------------------------
(***************************************************************************)
(* The one's complement sums over 16-bit words, at their real width.  A    *)
(* u32 is a pair <<high word, low word>> where it does not fit TLC's       *)
(* integers.                                                               *)
(***************************************************************************)
EXTENDS Integers, Sequences, SequencesExt

W == 65536

\* htons on a little-endian machine
Htons(n) == ((n % 256) * 256) + (n \div 256)

\* The carry comes back in at the low end.
Fold(sum) == (sum % W) + (sum \div W)

\* ~(u16) sum
Complement(sum) == W - 1 - sum

\* fault: the carry is dropped
IpChecksumNoCarry(words) == FoldLeft(LAMBDA sum, w : (sum + w) % W, 0, words)

\* ip_checksum: folded at every step, not complemented
IpChecksum(words) == FoldLeft(LAMBDA sum, w : Fold(sum + w), 0, words)

\* All words and a start value
Total(words, start) == FoldLeft(LAMBDA sum, w : sum + w, start, words)

\* tcp_checksum: summed up first, with an odd last byte, folded until it fits
\* (twice is enough below 2^32) and complemented
TcpChecksum(words, last) ==
  Complement(Fold(Fold(Total(words, last))))

\* fault: the high word of the difference is not folded in
TakeOffNoFold(check, len, dest) == (check - len - dest[2]) % W

\* chk += 0 - len - dest in u32 arithmetic, then one fold, then cut to u16.
\* Here len is the word in the header and dest a u32.
TakeOff(check, len, dest) ==
  LET low  == check - len - dest[2]
      high == (low \div W) - dest[1]
  IN  ((low % W) + (high % W)) % W

\* By how much the result is off, as a one's complement sum: the subtraction
\* that wraps below zero as a u32 loses one each time, the fold that overflows
\* a u16 gains one.
WrapError(check, len, dest) ==
  LET low  == check - len - dest[2]
      high == (low \div W) - dest[1]
      sum  == (low % W) + (high % W)
  IN  (high \div W) + (sum \div W)

\* fault: the lengths are swapped
AdjustSwapped(check, before, now) == (check + now - before) % W

\* check += len_before - len_now in a u16: the test for a carry that follows
\* in the code can never hold
Adjust(check, before, now) == (check + before - now) % W

\* What RFC 1071 asks of a header: all words, the checksum with them, add up
\* to a multiple of 2^16 - 1, and not to zero.
SumsUp(words, check) == /\ Total(words, check) > 0
                        /\ Total(words, check) % (W - 1) = 0
=============================================================================

------------------------------ MODULE QFunction ------------------------------
(***************************************************************************)
(* The posterior of one action (strategy/bayesian_lr.rs) and the Q-function *)
(* that holds one of them for each action.  An operator takes the record   *)
(* of the code's struct and returns the record after the call.             *)
(***************************************************************************)
EXTENDS Fractions

CONSTANTS Dim,             \* dimension of phi
          LambdaReg,       \* lambda_reg
          EmaAlpha,        \* ema_alpha
          InitialSigma2,   \* initial_sigma2
          OptimisticBias,  \* optimistic_bias
          SigmaFloor,      \* the least sigma2_noise an update leaves
          WarmUp           \* observations before divergence is looked for

ASSUME QAssumption ==
  /\ Dim \in Nat \ {0} /\ WarmUp \in Nat
  /\ IsFrac(LambdaReg) /\ Zero \prec LambdaReg
  /\ IsFrac(EmaAlpha) /\ Zero \prec EmaAlpha /\ EmaAlpha \preceq One
  /\ IsFrac(InitialSigma2) /\ Zero \prec InitialSigma2
  /\ IsFrac(OptimisticBias) /\ IsFrac(SigmaFloor)

QAction == {"Buy", "Sell", "Hold"}

\* A number that is not finite: infinite, or none at all
NotFinite == <<>>

\* sanitize_f64
SanitizedF(v) == IF v = NotFinite THEN Zero ELSE v

Times(v, f) == IF NotFinite \in {v, f} THEN NotFinite ELSE v ** f

Coords == 1 .. Dim

\* A vector or a row as a tuple, the elements of which TLC evaluates once
Listed(f) == SubSeq(f, 1, Dim)
Vec(f(_))    == Listed([i \in Coords |-> f(i)])
Mat(f(_, _)) == Listed([i \in Coords |-> Listed([j \in Coords |-> f(i, j)])])

Dot(x, y) == LET sum[k \in 0 .. Dim] == IF k = 0 THEN Zero ELSE sum[k - 1] ++ (x[k] ** y[k]) IN sum[Dim]
Apply(m, x)  == Vec(LAMBDA i : Dot(m[i], x))
Scaled(m, f) == Mat(LAMBDA i, j : m[i][j] ** f)

-----------------------------------------------------------------------------
(* BayesianLinearRegression *)

NewModel ==
  [aInv |-> Mat(LAMBDA i, j : IF i = j THEN One // LambdaReg ELSE Zero),
   b |-> Vec(LAMBDA i : Zero), w |-> Vec(LAMBDA i : Zero),
   sigma2 |-> InitialSigma2, ema |-> InitialSigma2, prevNorm2 |-> Zero, n |-> 0]

Predict(m, phi) == Dot(m.w, phi)

\* posterior_variance; posterior_std is its root
PosteriorVariance(m, phi) == MaxFrac(m.sigma2 ** Dot(phi, Apply(m.aInv, phi)), Zero)

ShermanMorrison(aInv, x) ==
  LET ax == Apply(aInv, x)
  IN Mat(LAMBDA i, j : aInv[i][j] -- ((ax[i] ** ax[j]) // (One ++ Dot(x, ax))))

\* update: the model after an observation
Updated(m, phi, y) ==
  LET residual == y -- Predict(m, phi)
      ema  == (EmaAlpha ** (residual ** residual)) ++ ((One -- EmaAlpha) ** m.ema)
      aInv == ShermanMorrison(m.aInv, phi)
      b    == Vec(LAMBDA i : m.b[i] ++ (phi[i] ** y))
  IN [aInv |-> aInv, b |-> b, w |-> Apply(aInv, b), sigma2 |-> MaxFrac(ema, SigmaFloor), ema |-> ema,
      prevNorm2 |-> Dot(m.w, m.w), n |-> m.n + 1]

FiniteModel(m) ==
  /\ NotFinite \notin {m.sigma2, m.ema, m.prevNorm2}
  /\ \A i \in Coords : NotFinite \notin {m.b[i], m.w[i]} /\ \A j \in Coords : m.aInv[i][j] # NotFinite

\* update when a number of the model or of the observation is not finite: a sum or a product with
\* such a number is none either.  A matrix that meets one is lost as a whole, b where it meets
\* one, and the weights and the average of the residuals in any case; of that average max leaves
\* what is infinite, and the floor where there is no number.
UpdatesLost(m, phi, y) ==
  LET aLost == \E i \in Coords : phi[i] = NotFinite \/ \E j \in Coords : m.aInv[i][j] = NotFinite
      aInv  == IF aLost THEN Mat(LAMBDA i, j : NotFinite) ELSE ShermanMorrison(m.aInv, phi)
      b     == Vec(LAMBDA i : IF NotFinite \in {m.b[i], phi[i], y} THEN NotFinite
                              ELSE m.b[i] ++ (phi[i] ** y))
      norm2 == IF \E i \in Coords : m.w[i] = NotFinite THEN NotFinite ELSE Dot(m.w, m.w)
  IN {[aInv |-> aInv, b |-> b, w |-> Vec(LAMBDA i : NotFinite), sigma2 |-> sigma2, ema |-> NotFinite,
       prevNorm2 |-> norm2, n |-> m.n + 1] : sigma2 \in {NotFinite, SigmaFloor}}

\* The models an update may leave, whatever the numbers are
UpdatesOf(m, phi, y) ==
  IF FiniteModel(m) /\ y # NotFinite /\ \A i \in Coords : phi[i] # NotFinite
    THEN {Updated(m, phi, y)} ELSE UpdatesLost(m, phi, y)

\* The divergence the update reports: |w| more than doubled (squares are compared)
Diverged(old, new) ==
  /\ new.n >= WarmUp
  /\ Zero \prec Dot(old.w, old.w)
  /\ (Whole(4) ** Dot(old.w, old.w)) \prec Dot(new.w, new.w)

\* Cholesky::new of A_inv succeeds: for the dimensions of an instance, one or two
PositiveDefinite(m) ==
  /\ \A i \in Coords : Zero \prec m[i][i]
  /\ \A i, j \in Coords : i # j => (m[i][j] ** m[j][i]) \prec (m[i][i] ** m[j][j])

\* The values sample_predict may return when the draws deviate by `deviations': the diagonal
\* stands in while there are fewer observations than dimensions, and a matrix that cannot be
\* decomposed leaves the point estimate.
SampledQ(m, phi, deviations) ==
  IF Zero \prec PosteriorVariance(m, phi) /\ (m.n < Dim \/ PositiveDefinite(m.aInv))
    THEN {Predict(m, phi) ++ e : e \in deviations}
    ELSE {Predict(m, phi)}

Reset(m) == [NewModel EXCEPT !.sigma2 = m.sigma2, !.ema = m.ema]
ResetFull(m) == [Reset(m) EXCEPT !.sigma2 = InitialSigma2, !.ema = InitialSigma2]

\* inflate_covariance: b and w stay
Inflated(m, factor) == [m EXCEPT !.aInv = Scaled(m.aInv, factor)]

\* apply_optimistic_bias
Biased(m) ==
  LET b == Vec(LAMBDA i : m.b[i] ++ (LambdaReg ** OptimisticBias))
  IN [m EXCEPT !.b = b, !.w = Apply(m.aInv, b)]

-----------------------------------------------------------------------------
(* QFunction: a model for each action *)

Optimistic(a, m) == IF a = "Hold" THEN m ELSE Biased(m)

NewQ == [a \in QAction |-> Optimistic(a, NewModel)]

QUpdated(q, a, phi, y) == [q EXCEPT ![a] = Updated(q[a], phi, y)]

\* q_values and posterior_stds, which the decisions report
QValues(q, phi) == [a \in QAction |-> Predict(q[a], phi)]
QVariances(q, phi) == [a \in QAction |-> PosteriorVariance(q[a], phi)]

ResetAction(q, a) == [q EXCEPT ![a] = Optimistic(a, Reset(q[a]))]
ResetAll(q) == [a \in QAction |-> Optimistic(a, Reset(q[a]))]
ResetAllFull(q) == [a \in QAction |-> Optimistic(a, ResetFull(q[a]))]

InflatedQ(q, factor) == [a \in QAction |-> Inflated(q[a], factor)]

-----------------------------------------------------------------------------
(* Snapshots *)

\* from_vec and from_column_major, which sanitize what they are given
Vector(v) == [len |-> Dim, data |-> Vec(LAMBDA i : SanitizedF(v[i]))]
Matrix(m) == [rows |-> Dim, cols |-> Dim, data |-> Mat(LAMBDA i, j : SanitizedF(m[i][j]))]

\* snapshot of a model; lambda_reg, ema_alpha and divergence_threshold travel with it
Snapshot(m) ==
  [dim |-> Dim, mean |-> Vector(m.w),
   covariance |-> Matrix(Mat(LAMBDA i, j : Times(m.aInv[i][j], m.sigma2))),
   precisionInverse |-> Matrix(m.aInv), b |-> Vector(m.b), sigma2 |-> m.sigma2,
   emaAlpha |-> EmaAlpha, ema |-> m.ema, lambdaReg |-> LambdaReg,
   prevNorm2 |-> m.prevNorm2, n |-> m.n, threshold |-> Whole(2)]

VectorFits(v, dim) == v.len = dim /\ DOMAIN v.data = 1 .. dim
MatrixFits(m, dim) == m.rows = dim /\ m.cols = dim /\ DOMAIN m.data = 1 .. dim

\* The checks of from_snapshot, each of which ends it with an error
Accepted(s) ==
  /\ s.dim > 0
  /\ Zero \prec s.lambdaReg /\ Zero \prec s.sigma2 /\ Zero \prec s.ema
  /\ Zero \prec s.emaAlpha /\ s.emaAlpha \preceq One /\ Zero \prec s.threshold
  /\ VectorFits(s.mean, s.dim) /\ VectorFits(s.b, s.dim)
  /\ MatrixFits(s.covariance, s.dim) /\ MatrixFits(s.precisionInverse, s.dim)

\* from_snapshot: the mean is formed again when it drifted from A_inv b
Restored(s) ==
  [aInv |-> s.precisionInverse.data, b |-> s.b.data, w |-> Apply(s.precisionInverse.data, s.b.data),
   sigma2 |-> s.sigma2, ema |-> s.ema, prevNorm2 |-> s.prevNorm2, n |-> s.n]

\* The snapshot of a Q-function keeps the actions in a list
SnapshotQ(q) == [dim |-> Dim, sigma2 |-> InitialSigma2, bias |-> OptimisticBias,
                 actions |-> {[action |-> a, model |-> Snapshot(q[a])] : a \in QAction}]

AcceptedQ(s) ==
  /\ s.dim > 0 /\ Zero \prec s.sigma2
  /\ {e.action : e \in s.actions} = QAction
  /\ \A e \in s.actions :
       /\ Accepted(e.model) /\ e.model.dim = s.dim
       /\ \A f \in s.actions : f.action = e.action => f = e

RestoredQ(s) == [a \in QAction |-> Restored((CHOOSE e \in s.actions : e.action = a).model)]
=============================================================================
